---- MODULE Spec2Model ----
(***************************************************************************)
(* Model of jwilder/mongodb-tools: the inline wire-protocol proxy          *)
(* (mongodbtools/mongo_proxy.py) and the offline sniffer                   *)
(* (mongodbtools/mongo_sniff.py).                                          *)
(*                                                                         *)
(* Bytes are the integers 0..255 and a buffer is a sequence of bytes.      *)
(* Python's 0-based indices are kept in the operators' arguments; the      *)
(* 1-based TLA+ index is computed inside.                                  *)
(***************************************************************************)
EXTENDS Integers, Sequences, FiniteSets, TLC

\* ------------------------------------------------------------------------
\* Bounds of the model
\* ------------------------------------------------------------------------

\* Client frames one inline session reads before the client goes away.
MaxFrames == 2

\* Chunks the sniffer handles before the capture ends.
MaxChunks == 4

\* ------------------------------------------------------------------------
\* Wire constants (mongo_proxy.py 54-62, mongo_sniff.py 33-41)
\* ------------------------------------------------------------------------

OP_REPLY == 1
OP_MSG == 1000
OP_UPDATE == 2001
OP_INSERT == 2002
OP_RESERVED == 2003
OP_QUERY == 2004
OP_GETMORE == 2005
OP_DELETE == 2006
OP_KILL_CURSORS == 2007

\* The keys of OP_NAMES.
OP_NAMES ==
    {OP_REPLY, OP_MSG, OP_UPDATE, OP_INSERT, OP_RESERVED, OP_QUERY,
     OP_GETMORE, OP_DELETE, OP_KILL_CURSORS}

\* The size of a message header: four 32-bit fields.
HeaderLen == 16

\* ------------------------------------------------------------------------
\* Python string and struct primitives
\* ------------------------------------------------------------------------

Min(a, b) == IF a < b THEN a ELSE b

\* buf[a:b] for 0 <= a, 0 <= b: the slice is clamped to the buffer.
Slice(buf, a, b) == SubSeq(buf, a + 1, Min(b, Len(buf)))

\* buf[a:]
SliceFrom(buf, a) == SubSeq(buf, a + 1, Len(buf))

IsPrefix(s, t) == Len(s) <= Len(t) /\ SubSeq(t, 1, Len(s)) = s

\* TLC's integers are 32-bit: a 32-bit field is taken apart as its low 31
\* bits and its top bit, and no intermediate value leaves the range.
Low31(b) == b[1] + 256 * b[2] + 65536 * b[3] + 16777216 * (b[4] % 128)

TopBit(b) == b[4] \div 128

\* struct.unpack("<i", b)[0] of a 4-byte string: signed 32-bit.
UnpackI32(b) ==
    IF TopBit(b) = 1 THEN (Low31(b) - 2147483647) - 1 ELSE Low31(b)

\* struct.unpack("<I", b)[0] of a 4-byte string: unsigned 32-bit.  A value
\* of 2^31 or more is the record [over |-> value - 2^31].
UnpackU32(b) == IF TopBit(b) = 1 THEN [over |-> Low31(b)] ELSE Low31(b)

\* struct.pack("<i", v): what a peer puts on the wire.
PackI32(v) ==
    LET u == IF v < 0 THEN (v + 2147483647) + 1 ELSE v
    IN  <<u % 256, (u \div 256) % 256, (u \div 65536) % 256,
          (u \div 16777216) + (IF v < 0 THEN 128 ELSE 0)>>

\* A raised Python exception, as the result of a decode.
Failed == [ok |-> FALSE]

\* ------------------------------------------------------------------------
\* bson.decode_all: the external document decoder, by its framing.  A
\* document is <int32 size> <elements> <NUL>; size counts all of it.  The
\* decoded document is represented by its element bytes.
\* ------------------------------------------------------------------------

RECURSIVE DecodeAllFrom(_, _, _)
DecodeAllFrom(data, position, docs) ==
    IF position >= Len(data) - 1 THEN [ok |-> TRUE, docs |-> docs]
    ELSE IF Len(Slice(data, position, position + 4)) # 4 THEN Failed
    ELSE LET obj_size == UnpackI32(Slice(data, position, position + 4))
         IN  IF obj_size < 5 \/ Len(data) - position < obj_size THEN Failed
             ELSE IF data[position + obj_size] # 0 THEN Failed
             ELSE DecodeAllFrom(data, position + obj_size,
                      Append(docs,
                             Slice(data, position + 4, position + obj_size - 1)))

DecodeAll(data) == DecodeAllFrom(data, 0, <<>>)

\* ------------------------------------------------------------------------
\* Wire frames the peers send: the model's inputs
\* ------------------------------------------------------------------------

\* "d.c" and "dc" as bytes.
NsDotted == <<100, 46, 99>>
NsPlain == <<100, 99>>

\* The empty document {}: size 5, no element, NUL.
EmptyDoc == <<5, 0, 0, 0, 0>>

\* A 64-bit cursor id.
Cursor8 == <<7, 0, 0, 0, 0, 0, 0, 0>>

WireHeader(length, request_id, response_to, operation) ==
    PackI32(length) \o PackI32(request_id) \o PackI32(response_to)
        \o PackI32(operation)

Frame(request_id, response_to, operation, body) ==
    WireHeader(HeaderLen + Len(body), request_id, response_to, operation)
        \o body

QueryFrame(request_id, ns) ==
    Frame(request_id, 0, OP_QUERY,
          PackI32(0) \o ns \o <<0>> \o PackI32(0) \o PackI32(0) \o EmptyDoc)

GetMoreFrame(request_id, ns) ==
    Frame(request_id, 0, OP_GETMORE,
          PackI32(0) \o ns \o <<0>> \o PackI32(0) \o Cursor8)

InsertFrame(request_id, ns) ==
    Frame(request_id, 0, OP_INSERT, PackI32(0) \o ns \o <<0>> \o EmptyDoc)

UpdateFrame(request_id, ns) ==
    Frame(request_id, 0, OP_UPDATE,
          PackI32(0) \o ns \o <<0>> \o PackI32(2) \o EmptyDoc \o EmptyDoc)

DeleteFrame(request_id, ns) ==
    Frame(request_id, 0, OP_DELETE,
          PackI32(0) \o ns \o <<0>> \o PackI32(0) \o EmptyDoc)

KillCursorsFrame(request_id) ==
    Frame(request_id, 0, OP_KILL_CURSORS,
          PackI32(0) \o PackI32(1) \o Cursor8)

\* A frame of an operation code that is none of the nine known ones.
OtherFrame(request_id) == Frame(request_id, 0, 3000, PackI32(0))

\* A Query header that claims total_length = 16: no body follows.
BareQueryFrame(request_id) == Frame(request_id, 0, OP_QUERY, <<>>)

ReplyFrame(request_id, response_to) ==
    Frame(request_id, response_to, OP_REPLY,
          PackI32(0) \o Cursor8 \o PackI32(0) \o PackI32(1) \o EmptyDoc)

\* A Reply header that claims total_length = 16.
BareReplyFrame(request_id, response_to) ==
    Frame(request_id, response_to, OP_REPLY, <<>>)

\* ------------------------------------------------------------------------
\* mongo_proxy.py: the codec of the inline proxy
\* ------------------------------------------------------------------------

NoHeader == [length |-> 0, request_id |-> 0, response_to |-> 0, operation |-> 0]

\* MongoProxy.extract_header
extract_header(resp) ==
    IF Len(resp) # HeaderLen THEN Failed
    ELSE [ok |-> TRUE,
          header |-> [length |-> UnpackI32(Slice(resp, 0, 4)),
                      request_id |-> UnpackI32(Slice(resp, 4, 8)),
                      response_to |-> UnpackI32(Slice(resp, 8, 12)),
                      operation |-> UnpackI32(Slice(resp, 12, 16))]]

\* MongoProxy._extract_cstring: the index of the first NUL at or after
\* ns_end; -1 stands for the IndexError of buf[len(buf)].
RECURSIVE extract_cstring(_, _)
extract_cstring(buf, ns_end) ==
    IF ns_end >= Len(buf) THEN -1
    ELSE IF buf[ns_end + 1] = 0 THEN ns_end
    ELSE extract_cstring(buf, ns_end + 1)

\* struct.unpack("<i", buf[a:a+4]) raises unless the slice has 4 bytes.
HasI32(buf, a) == Len(Slice(buf, a, a + 4)) = 4

\* handle_delete, up to the construction of the DeleteMessage.
decode_delete(header, buf) ==
    LET ns_end == extract_cstring(buf, 20)
    IN  IF ns_end < 0 \/ ~HasI32(buf, ns_end) THEN Failed
        ELSE LET selector == DecodeAll(SliceFrom(buf, ns_end + 4 + 1))
             IN  IF ~selector.ok THEN Failed
                 ELSE [ok |-> TRUE,
                       msg |-> [header |-> header,
                                collection |-> Slice(buf, 20, ns_end),
                                flags |-> UnpackI32(Slice(buf, ns_end, ns_end + 4)),
                                selector |-> selector.docs]]

\* handle_insert, up to the construction of the InsertMessage.
decode_insert(header, buf) ==
    IF ~HasI32(buf, 16) THEN Failed
    ELSE LET ns_end == extract_cstring(buf, 20)
         IN  IF ns_end < 0 THEN Failed
             ELSE LET documents == DecodeAll(SliceFrom(buf, ns_end + 1))
                  IN  IF ~documents.ok THEN Failed
                      ELSE [ok |-> TRUE,
                            msg |-> [header |-> header,
                                     flags |-> UnpackI32(Slice(buf, 16, 20)),
                                     collection |-> Slice(buf, 20, ns_end),
                                     documents |-> documents.docs]]

\* handle_update, up to the construction of the UpdateMessage.
decode_update(header, buf) ==
    LET ns_end == extract_cstring(buf, 20)
    IN  IF ns_end < 0 \/ ~HasI32(buf, ns_end) THEN Failed
        ELSE LET selector_fields == DecodeAll(SliceFrom(buf, ns_end + 4 + 1))
             IN  IF ~selector_fields.ok THEN Failed
                 ELSE IF Len(selector_fields.docs) = 0 THEN Failed
                 ELSE [ok |-> TRUE,
                       msg |-> [header |-> header,
                                collection |-> Slice(buf, 20, ns_end),
                                flags |-> UnpackI32(Slice(buf, ns_end, ns_end + 4)),
                                selector |-> selector_fields.docs[1],
                                update |-> IF Len(selector_fields.docs) = 2
                                           THEN selector_fields.docs[2]
                                           ELSE <<>>]]

\* handle_query, up to the construction of the QueryMessage.
decode_query(header, buf) ==
    IF ~HasI32(buf, 16) THEN Failed
    ELSE LET ns_end == extract_cstring(buf, 20)
         IN  IF ns_end < 0 THEN Failed
             ELSE IF ~HasI32(buf, ns_end + 1) \/ ~HasI32(buf, ns_end + 5)
                  THEN Failed
             ELSE LET selector_fields == DecodeAll(SliceFrom(buf, ns_end + 9))
                  IN  IF ~selector_fields.ok THEN Failed
                      ELSE IF Len(selector_fields.docs) = 0 THEN Failed
                      ELSE [ok |-> TRUE,
                            msg |-> [header |-> header,
                                     collection |-> Slice(buf, 20, ns_end),
                                     flags |-> UnpackI32(Slice(buf, 16, 20)),
                                     skip |-> UnpackI32(Slice(buf, ns_end + 1, ns_end + 5)),
                                     to_return |-> UnpackI32(Slice(buf, ns_end + 5, ns_end + 9)),
                                     query |-> selector_fields.docs[1],
                                     fields |-> IF Len(selector_fields.docs) = 2
                                                THEN selector_fields.docs[2]
                                                ELSE <<>>]]

\* handle_more, up to the construction of the MoreMessage.  "<q" needs the
\* 8 bytes of the cursor id.
decode_more(header, buf) ==
    LET ns_end == extract_cstring(buf, 20)
    IN  IF ns_end < 0 THEN Failed
        ELSE IF ~HasI32(buf, ns_end + 1)
                \/ Len(Slice(buf, ns_end + 5, ns_end + 13)) # 8 THEN Failed
        ELSE [ok |-> TRUE,
              msg |-> [header |-> header,
                       collection |-> Slice(buf, 20, ns_end),
                       to_return |-> UnpackI32(Slice(buf, ns_end + 1, ns_end + 5)),
                       cursor_id |-> Slice(buf, ns_end + 5, ns_end + 13)]]

\* handle_reply, from the unpack of the fixed fields to the ReplyMessage.
decode_reply(header, resp) ==
    IF Len(Slice(resp, 16, 36)) # 20 THEN Failed
    ELSE LET docs == DecodeAll(SliceFrom(resp, 36))
         IN  IF ~docs.ok THEN Failed
             ELSE [ok |-> TRUE,
                   msg |-> [header |-> header,
                            flags |-> UnpackI32(Slice(resp, 16, 20)),
                            cursor_id |-> Slice(resp, 20, 28),
                            starting_from |-> UnpackI32(Slice(resp, 28, 32)),
                            number_returned |-> UnpackI32(Slice(resp, 32, 36)),
                            documents |-> docs.docs]]

\* The operations proxy() decodes; every other code is forwarded as it is.
TypedOps == {OP_DELETE, OP_QUERY, OP_INSERT, OP_UPDATE, OP_GETMORE}

\* The decode at the head of the handler proxy() picks for header.operation.
decode_typed(header, buf) ==
    CASE header.operation = OP_DELETE -> decode_delete(header, buf)
      [] header.operation = OP_QUERY -> decode_query(header, buf)
      [] header.operation = OP_INSERT -> decode_insert(header, buf)
      [] header.operation = OP_UPDATE -> decode_update(header, buf)
      [] header.operation = OP_GETMORE -> decode_more(header, buf)


\* ------------------------------------------------------------------------
\* mongo_sniff.py: the codec of the sniffer
\* ------------------------------------------------------------------------

\* struct.unpack("<I", b)[0] >> 8
U32Shift8(b) == Low31(b) \div 256 + TopBit(b) * 8388608

\* buf[a:a+n] with n an unsigned 32-bit value.
SliceU32(buf, a, n) ==
    IF n \in Int THEN Slice(buf, a, a + n) ELSE SliceFrom(buf, a)

\* MongoProxy.extract_header of the sniffer: at least 16 bytes, unsigned.
sniff_extract_header(resp) ==
    IF Len(resp) < HeaderLen THEN Failed
    ELSE [ok |-> TRUE,
          header |-> [length |-> UnpackU32(Slice(resp, 0, 4)),
                      request_id |-> UnpackU32(Slice(resp, 4, 8)),
                      response_to |-> UnpackU32(Slice(resp, 8, 12)),
                      operation |-> UnpackU32(Slice(resp, 12, 16))]]

\* MongoProxy._extract_cstring of the sniffer: one past the first NUL at or
\* after ns_end; -1 stands for the IndexError of buf[len(buf)].
sniff_extract_cstring(buf, ns_end) ==
    LET nul == extract_cstring(buf, ns_end)
    IN  IF nul < 0 THEN -1 ELSE nul + 1

\* MongoProxy._parse_delete
parse_delete(header, buf) ==
    LET ns_end == sniff_extract_cstring(buf, 20)
    IN  IF ns_end < 0 \/ ~HasI32(buf, ns_end) THEN Failed
        ELSE LET selector == DecodeAll(SliceFrom(buf, ns_end + 4))
             IN  IF ~selector.ok THEN Failed
                 ELSE [ok |-> TRUE,
                       msg |-> [header |-> header,
                                collection |-> Slice(buf, 20, ns_end - 1),
                                flags |-> UnpackU32(Slice(buf, ns_end, ns_end + 4)),
                                selector |-> selector.docs]]

\* MongoProxy._parse_insert: the documents are decoded from the slice the
\* first document's size gives.
parse_insert(header, buf) ==
    IF ~HasI32(buf, 16) THEN Failed
    ELSE LET ns_end == sniff_extract_cstring(buf, 20)
         IN  IF ns_end < 0 \/ ~HasI32(buf, ns_end) THEN Failed
             ELSE LET length == UnpackU32(Slice(buf, ns_end, ns_end + 4))
                      documents == DecodeAll(SliceU32(buf, ns_end, length))
                  IN  IF ~documents.ok THEN Failed
                      ELSE [ok |-> TRUE,
                            msg |-> [header |-> header,
                                     flags |-> UnpackU32(Slice(buf, 16, 20)),
                                     collection |-> Slice(buf, 20, ns_end - 1),
                                     documents |-> documents.docs]]

\* MongoProxy._parse_update
parse_update(header, buf) ==
    LET ns_end == sniff_extract_cstring(buf, 20)
    IN  IF ns_end < 0 \/ ~HasI32(buf, ns_end) THEN Failed
        ELSE LET selector_fields == DecodeAll(SliceFrom(buf, ns_end + 4))
             IN  IF ~selector_fields.ok THEN Failed
                 ELSE IF Len(selector_fields.docs) = 0 THEN Failed
                 ELSE [ok |-> TRUE,
                       msg |-> [header |-> header,
                                collection |-> Slice(buf, 20, ns_end - 1),
                                flags |-> U32Shift8(Slice(buf, ns_end, ns_end + 4)),
                                selector |-> selector_fields.docs[1],
                                update |-> IF Len(selector_fields.docs) = 2
                                           THEN selector_fields.docs[2]
                                           ELSE <<>>]]

\* MongoProxy._parse_reply
parse_reply(header, resp) ==
    IF Len(Slice(resp, 16, 36)) # 20 THEN Failed
    ELSE LET docs == DecodeAll(SliceFrom(resp, 36))
         IN  IF ~docs.ok THEN Failed
             ELSE [ok |-> TRUE,
                   msg |-> [header |-> header,
                            flags |-> UnpackU32(Slice(resp, 16, 20)),
                            cursor_id |-> Slice(resp, 20, 28),
                            starting_from |-> UnpackU32(Slice(resp, 28, 32)),
                            number_returned |-> UnpackU32(Slice(resp, 32, 36)),
                            documents |-> docs.docs]]

\* MongoProxy._parse_query
parse_query(header, buf) ==
    IF ~HasI32(buf, 16) THEN Failed
    ELSE LET ns_end == sniff_extract_cstring(buf, 20)
         IN  IF ns_end < 0 THEN Failed
             ELSE IF ~HasI32(buf, ns_end) \/ ~HasI32(buf, ns_end + 4)
                  THEN Failed
             ELSE LET selector_fields == DecodeAll(SliceFrom(buf, ns_end + 8))
                  IN  IF ~selector_fields.ok THEN Failed
                      ELSE IF Len(selector_fields.docs) = 0 THEN Failed
                      ELSE [ok |-> TRUE,
                            msg |-> [header |-> header,
                                     collection |-> Slice(buf, 20, ns_end - 1),
                                     flags |-> UnpackU32(Slice(buf, 16, 20)),
                                     skip |-> UnpackU32(Slice(buf, ns_end, ns_end + 4)),
                                     to_return |-> UnpackU32(Slice(buf, ns_end + 4, ns_end + 8)),
                                     query |-> selector_fields.docs[1],
                                     fields |-> IF Len(selector_fields.docs) = 2
                                                THEN selector_fields.docs[2]
                                                ELSE <<>>]]

\* MongoProxy._parse_getmore
parse_getmore(header, buf) ==
    LET ns_end == sniff_extract_cstring(buf, 20)
    IN  IF ns_end < 0 THEN Failed
        ELSE IF ~HasI32(buf, ns_end)
                \/ Len(Slice(buf, ns_end + 4, ns_end + 12)) # 8 THEN Failed
        ELSE [ok |-> TRUE,
              msg |-> [header |-> header,
                       collection |-> Slice(buf, 20, ns_end - 1),
                       to_return |-> UnpackU32(Slice(buf, ns_end, ns_end + 4)),
                       cursor_id |-> Slice(buf, ns_end + 4, ns_end + 12)]]

\* The operations _handle_packet parses.
SniffedOps == TypedOps \cup {OP_REPLY}

\* The parse _handle_packet picks for header.operation.
parse_chunk(header, chunk) ==
    CASE header.operation = OP_QUERY -> parse_query(header, chunk)
      [] header.operation = OP_DELETE -> parse_delete(header, chunk)
      [] header.operation = OP_INSERT -> parse_insert(header, chunk)
      [] header.operation = OP_UPDATE -> parse_update(header, chunk)
      [] header.operation = OP_GETMORE -> parse_getmore(header, chunk)
      [] header.operation = OP_REPLY -> parse_reply(header, chunk)

\* ------------------------------------------------------------------------
\* State
\* ------------------------------------------------------------------------

VARIABLES
    calls,          \* the listeners add_listener was called with, in order
    listeners,      \* MongoProxy.listeners
    pc,             \* where proxy() is
    CONNECTIONS,    \* the greenlets that have an entry in CONNECTIONS
    stats,          \* CONNECTIONS[greenlet]["stats"] without "time": op -> count
    sock,           \* the session's two sockets: none, open or closed
    gone,           \* the peers that have closed their end
    inC,            \* bytes the client has sent that proxy() has not read
    readC,          \* all bytes read from the client socket
    wroteS,         \* all bytes written to the upstream socket
    inS,            \* bytes upstream has sent that proxy() has not read
    readS,          \* all bytes read from the upstream socket
    wroteC,         \* all bytes written to the client socket
    buf,            \* proxy(): req / buf of the current iteration
    header,         \* proxy(): header of the current iteration
    msg,            \* handle_<op>(): the decoded message
    resp,           \* handle_reply(): resp
    reply_header,   \* handle_reply(): header
    reply,          \* handle_reply(): msg
    steps,          \* what the current iteration has done so far, in order
    lifecycle,      \* on_open / summary / on_close, in order
    timing,         \* the TimingListener: requests and stats
    frames,         \* frames the client has sent
    clock,          \* time.time()
    threw,          \* a listener raised during the current iteration
    cause,          \* why the forwarding loop was left
    sniff,          \* the sniffer's MongoProxy: requests, frame_number, pdus
    capture,        \* the chunks the sniffer has handled, in order
    fed,            \* the packets the sniffer has been given, in order
    peers,          \* two concurrent sessions: where each is in proxy()
    probe           \* a buffer and what the codec made of it

\* The variables of one inline session.
sessionVars ==
    <<CONNECTIONS, stats, sock, gone, inC, readC, wroteS, inS, readS, wroteC,
      buf, header, msg, resp, reply_header, reply, steps, lifecycle, frames,
      threw, cause>>

\* The variables of the sniffer.
sniffVars == <<sniff, capture, fed>>

vars ==
    <<calls, listeners, pc, CONNECTIONS, stats, sock, gone, inC, readC, wroteS, inS,
      readS, wroteC, buf, header, msg, resp, reply_header, reply, steps,
      lifecycle, timing, frames, clock, threw, cause, sniff, capture, fed,
      peers, probe>>

\* The session's greenlet and the address of its client.
Greenlet == "g1"
Address == "a1"

Range(f) == {f[x] : x \in DOMAIN f}

\* A dict with no key.
EmptyDict == [k \in {} |-> 0]

\* d[k] = v
DictSet(d, k, v) == [x \in DOMAIN d \cup {k} |-> IF x = k THEN v ELSE d[x]]

\* del d[k]
DictDel(d, k) == [x \in DOMAIN d \ {k} |-> d[x]]

\* ------------------------------------------------------------------------
\* mongo_proxy.py: the listeners
\* ------------------------------------------------------------------------

BeforeEvents ==
    {"before_update", "before_insert", "before_delete", "before_more",
     "before_query"}

\* The after_<op> callbacks TimingListener overrides.
AfterEvents == {"after_query", "after_insert", "after_delete", "after_update"}

Dot == 46

NoEffect(t) == [timing |-> t, lat |-> <<>>, raised |-> FALSE]

Raise(t) == [timing |-> t, lat |-> <<>>, raised |-> TRUE]

\* TimingListener._before
timing_before(m, t, now) ==
    NoEffect([t EXCEPT !.requests = DictSet(@, m.header.request_id, now)])

\* TimingListener._after: index(".") raises ValueError when the namespace
\* has no dot, msg.documents raises AttributeError on a MoreMessage, and
\* self.requests[request_id] raises KeyError when the entry is missing.
timing_after(m, t, now) ==
    IF Dot \notin Range(m.collection) THEN Raise(t)
    ELSE IF m.header.operation = OP_GETMORE THEN Raise(t)
    ELSE IF m.header.request_id \notin DOMAIN t.requests THEN Raise(t)
    ELSE [timing |-> [t EXCEPT !.requests = DictDel(@, m.header.request_id)],
          lat |-> <<[request_id |-> m.header.request_id,
                     elapsed |-> now - t.requests[m.header.request_id]]>>,
          raised |-> FALSE]

\* One callback of the TimingListener.
timing_callback(fname, arg, t, now) ==
    CASE fname = "on_open" -> NoEffect([t EXCEPT !.stats = @ \cup {arg}])
      [] fname = "on_close" ->
            IF arg \in t.stats THEN NoEffect([t EXCEPT !.stats = @ \ {arg}])
            ELSE Raise(t)
      [] fname \in BeforeEvents -> timing_before(arg, t, now)
      [] fname \in AfterEvents -> timing_after(arg, t, now)
      [] OTHER -> NoEffect(t)

\* getattr(listener, fname)(msg).  "timing" is the TimingListener, "raw" the
\* RawLoggingListener, "user" any other MongoListener: it raises on the
\* events of T.
callback(l, fname, arg, t, now, T) ==
    CASE l = "timing" -> timing_callback(fname, arg, t, now)
      [] l = "user" -> IF fname \in T THEN Raise(t) ELSE NoEffect(t)
      [] OTHER -> NoEffect(t)

NoDispatch(t) ==
    [to |-> <<>>, timing |-> t, lat |-> <<>>, threw |-> FALSE, raised |-> FALSE]

\* The loop of _invoke_callback without its try/except: the first exception
\* ends the loop and reaches the caller.
RECURSIVE invoke_uncaught_from(_, _, _, _, _, _, _)
invoke_uncaught_from(ls, i, fname, arg, now, T, acc) ==
    IF i > Len(ls) THEN acc
    ELSE LET r == callback(ls[i], fname, arg, acc.timing, now, T)
         IN  IF r.raised
             THEN [acc EXCEPT !.to = Append(@, ls[i]), !.raised = TRUE]
             ELSE invoke_uncaught_from(ls, i + 1, fname, arg, now, T,
                      [to |-> Append(acc.to, ls[i]), timing |-> r.timing,
                       lat |-> acc.lat \o r.lat, threw |-> acc.threw,
                       raised |-> FALSE])

invoke_callback_uncaught(ls, fname, arg, t, now, T) ==
    invoke_uncaught_from(ls, 1, fname, arg, now, T, NoDispatch(t))

\* The loop of _invoke_callback: every listener is called in list order and
\* an exception is logged, not passed on.
RECURSIVE invoke_from(_, _, _, _, _, _, _)
invoke_from(ls, i, fname, arg, now, T, acc) ==
    IF i > Len(ls) THEN acc
    ELSE LET r == callback(ls[i], fname, arg, acc.timing, now, T)
         IN  invoke_from(ls, i + 1, fname, arg, now, T,
                 [to |-> Append(acc.to, ls[i]), timing |-> r.timing,
                  lat |-> acc.lat \o r.lat, threw |-> acc.threw \/ r.raised,
                  raised |-> FALSE])

\* MongoProxy._invoke_callback
invoke_callback(ls, fname, arg, t, now, T) ==
    invoke_from(ls, 1, fname, arg, now, T, NoDispatch(t))

\* What one dispatch leaves in the trace of the iteration.
EventStep(fname, d) == [ev |-> fname, to |-> d.to, lat |-> d.lat]

\* A step that is no dispatch: a read or a write of a socket.
IoStep(name) == [ev |-> name, to |-> <<>>, lat |-> <<>>]

\* The latency events the TimingListener logged in a run of events.
RECURSIVE Latencies(_)
Latencies(st) ==
    IF st = <<>> THEN <<>> ELSE Head(st).lat \o Latencies(Tail(st))

\* Consecutive _invoke_callback calls with nothing but straight-line code
\* between them; an exception that reaches the caller ends the run.
RECURSIVE run_events(_, _, _, _, _, _, _)
run_events(ls, evs, arg, now, T, i, acc) ==
    IF i > Len(evs) \/ acc.raised THEN acc
    ELSE LET d == invoke_callback(ls, evs[i], arg, acc.timing, now, T)
         IN  run_events(ls, evs, arg, now, T, i + 1,
                 [steps |-> Append(acc.steps, EventStep(evs[i], d)),
                  timing |-> d.timing, threw |-> acc.threw \/ d.threw,
                  raised |-> d.raised])

RunEvents(evs, arg, t, now, T) ==
    run_events(listeners, evs, arg, now, T, 1,
               [steps |-> <<>>, timing |-> t, threw |-> FALSE, raised |-> FALSE])

\* The listener appended whether it is in the list or not.
add_listener_again(ls, listener) == Append(ls, listener)

\* The new listener put at the head of the list.
add_listener_first(ls, listener) ==
    IF listener \notin Range(ls) THEN <<listener>> \o ls ELSE ls

\* MongoProxy.add_listener
add_listener(ls, listener) ==
    IF listener \notin Range(ls) THEN Append(ls, listener) ELSE ls


\* ------------------------------------------------------------------------
\* The sockets' peers
\* ------------------------------------------------------------------------

\* The frames a client sends.
ClientFrames ==
    {QueryFrame(1, NsDotted), QueryFrame(2, NsPlain), GetMoreFrame(3, NsDotted),
     InsertFrame(4, NsDotted), UpdateFrame(5, NsDotted),
     DeleteFrame(6, NsDotted), KillCursorsFrame(7), OtherFrame(8),
     BareQueryFrame(9)}

ClientSends ==
    IF frames < MaxFrames
    THEN {[bytes |-> f, close |-> FALSE] : f \in ClientFrames}
    ELSE {}

\* What upstream sends back for the request request_id: a Reply, a Reply
\* header with no body, or a Reply cut short by the end of the connection.
UpstreamSends(request_id) ==
    {[bytes |-> ReplyFrame(50, request_id), close |-> FALSE],
     [bytes |-> BareReplyFrame(50, request_id), close |-> FALSE],
     [bytes |-> SubSeq(ReplyFrame(50, request_id), 1,
                       Len(ReplyFrame(50, request_id)) - Len(EmptyDoc)),
      close |-> TRUE]}

\* recv may return fewer bytes than are there: here, all of them or all but
\* the length of one document.
Takes(bytes, n) ==
    LET avail == Min(n, Len(bytes))
    IN  {avail} \cup {k \in {avail - Len(EmptyDoc)} : k > 0}

\* The outcomes of sock.recv(n) with `inflight` sent and not yet read: an
\* error, or the data returned (none at the end of the stream) after the
\* peer has possibly sent one of `sendable` or closed its end.  Once the
\* peer has closed and all it sent was read, recv returns the empty string
\* every time and no error.
Arrivals(inflight, peerGone, n, sendable) ==
    (IF peerGone /\ inflight = <<>> THEN {}
     ELSE {[kind |-> "error", data |-> <<>>, rest |-> inflight,
            gone |-> peerGone, sent |-> 0]})
    \cup
    ( IF n < 0 THEN {}
      ELSE IF n = 0
      THEN {[kind |-> "data", data |-> <<>>, rest |-> inflight,
             gone |-> peerGone, sent |-> 0]}
      ELSE LET pools ==
                   (IF inflight # <<>> \/ peerGone
                    THEN {[bytes |-> inflight, gone |-> peerGone, sent |-> 0]}
                    ELSE {[bytes |-> <<>>, gone |-> TRUE, sent |-> 0]})
                   \cup
                   (IF ~peerGone /\ Len(inflight) < n
                    THEN {[bytes |-> inflight \o f.bytes, gone |-> f.close,
                           sent |-> 1] : f \in sendable}
                    ELSE {})
           IN  UNION {{[kind |-> "data",
                        data |-> SubSeq(p.bytes, 1, k),
                        rest |-> SubSeq(p.bytes, k + 1, Len(p.bytes)),
                        gone |-> p.gone, sent |-> p.sent]
                       : k \in Takes(p.bytes, n)} : p \in pools} )

\* ------------------------------------------------------------------------
\* mongo_proxy.py: MongoProxy.proxy, one session
\* ------------------------------------------------------------------------

\* The events the "user" listener may raise on, out of those a step fires.
Raises(E) == IF "user" \in Range(listeners) THEN SUBSET E ELSE {{}}

RECURSIVE SumOver(_, _)
SumOver(d, keys) ==
    IF keys = {} THEN 0
    ELSE LET k == CHOOSE x \in keys : TRUE
         IN  d[k] + SumOver(d, keys \ {k})

\* log_stats raises KeyError on an operation code that OP_NAMES lacks and
\* ZeroDivisionError when no frame was counted.
log_stats_raises(st) ==
    \/ \E x \in DOMAIN st : x \notin OP_NAMES
    \/ SumOver(st, DOMAIN st) = 0

\* sendall of the body alone, the header left out.
sendall_body_only(written, data) == written \o SliceFrom(data, HeaderLen)

\* sock.sendall(data): the bytes the socket has been given, after the call.
sendall(written, data) == written \o data

\* The counter set to 1 whatever it was.
bump_forgets(st, op) == DictSet(st, op, 1)

\* The counter of a Reply left as it was.
bump_requests_only(st, op) ==
    IF op = OP_REPLY THEN st
    ELSE DictSet(st, op, (IF op \in DOMAIN st THEN st[op] ELSE 0) + 1)

\* stats.setdefault(op, 0); stats[op] = count + 1
bump(st, op) == DictSet(st, op, (IF op \in DOMAIN st THEN st[op] ELSE 0) + 1)

BothClosed == [client |-> "closed", upstream |-> "closed"]

\* The events of handle_<op> up to its s.sendall(buf).
BeforeSeq(op) ==
    CASE op = OP_QUERY -> <<"before_query", "before_query_send">>
      [] op = OP_GETMORE -> <<"before_more", "before_more_send">>
      [] op = OP_INSERT -> <<"before_insert">>
      [] op = OP_UPDATE -> <<"before_update">>
      [] op = OP_DELETE -> <<"before_delete">>
      [] OTHER -> <<>>

\* The events of handle_<op> between s.sendall(buf) and its next blocking
\* call, or its end.
AfterSendSeq(op) ==
    CASE op = OP_QUERY -> <<"after_query_send", "before_query_reply">>
      [] op = OP_GETMORE -> <<"after_more_send", "before_more_reply">>
      [] op = OP_INSERT -> <<"after_insert">>
      [] op = OP_UPDATE -> <<"after_update">>
      [] op = OP_DELETE -> <<"after_delete">>
      [] OTHER -> <<>>

\* after_<op> fired before after_<op>_reply.
AfterReplySeqSwapped(op) ==
    CASE op = OP_QUERY -> <<"after_query", "after_query_reply">>
      [] op = OP_GETMORE -> <<"after_more", "after_more_reply">>
      [] OTHER -> <<>>

\* The events of handle_query / handle_more after handle_reply returns.
AfterReplySeq(op) ==
    CASE op = OP_QUERY -> <<"after_query_reply", "after_query">>
      [] op = OP_GETMORE -> <<"after_more_reply", "after_more">>
      [] OTHER -> <<>>

\* Only handle_more waiting for a reply.
ExpectsReplyToMore(op) == op = OP_GETMORE

\* Every typed handler waiting for a reply.
ExpectsReplyAlways(op) == op \in TypedOps

\* handle_query and handle_more call handle_reply; the other handlers and
\* the else branch of proxy() do not.
ExpectsReply(op) == op \in {OP_QUERY, OP_GETMORE}

\* The loop goes on: the next blocking call is `next`.
Stay(next, t, st, th) ==
    /\ pc' = next
    /\ timing' = t
    /\ steps' = st
    /\ threw' = th
    /\ UNCHANGED <<sock, CONNECTIONS, lifecycle, cause>>

\* The loop is left, by the break after an empty read or through the except
\* clause (which closes both sockets); then lines 538-544: log_stats, the
\* on_close event, the registry entry, the two close calls.
Leave(why, viaExcept, counts, t, st, th, now, T) ==
    LET sock1 == IF viaExcept THEN BothClosed ELSE sock
        d == invoke_callback(listeners, "on_close", Address, t, now, T)
        summary == [ev |-> "summary", to |-> <<>>, lat |-> <<>>]
    IN  /\ cause' = why
        /\ steps' = st
        /\ IF log_stats_raises(counts)
           THEN /\ pc' = "raised"
                /\ sock' = sock1
                /\ timing' = t
                /\ threw' = th
                /\ UNCHANGED <<CONNECTIONS, lifecycle>>
           ELSE /\ lifecycle' =
                       lifecycle \o <<summary, EventStep("on_close", d)>>
                /\ timing' = d.timing
                /\ threw' = (th \/ d.threw)
                /\ IF d.raised
                   THEN /\ pc' = "raised"
                        /\ sock' = sock1
                        /\ UNCHANGED CONNECTIONS
                   ELSE /\ pc' = "returned"
                        /\ sock' = BothClosed
                        /\ CONNECTIONS' = CONNECTIONS \ {Greenlet}

\* Lines 493-499: the registry entry, the on_open event, the start time.
ProxyStart ==
    /\ pc = "accept"
    /\ \E T \in Raises({"on_open"}) :
        LET d == invoke_callback(listeners, "on_open", Address, timing, clock, T)
        IN  /\ CONNECTIONS' = CONNECTIONS \cup {Greenlet}
            /\ stats' = EmptyDict
            /\ lifecycle' = Append(lifecycle, EventStep("on_open", d))
            /\ timing' = d.timing
            /\ threw' = d.threw
            /\ pc' = IF d.raised THEN "raised" ELSE "connect"
    /\ UNCHANGED <<fed, peers, probe, sniff, capture, calls, listeners, sock, gone, inC, readC, wroteS, inS, readS,
                   wroteC, buf, header, msg, resp, reply_header, reply, steps,
                   frames, clock, cause>>

\* Lines 501-506: the upstream connection; on failure the client socket is
\* closed and proxy() returns.
Connect ==
    /\ pc = "connect"
    /\ \E connected \in BOOLEAN :
        IF connected
        THEN /\ sock' = [sock EXCEPT !.upstream = "open"]
             /\ pc' = "recv_header"
             /\ UNCHANGED cause
        ELSE /\ sock' = [sock EXCEPT !.client = "closed"]
             /\ pc' = "returned"
             /\ cause' = "connect_failed"
    /\ clock' = clock + 1
    /\ UNCHANGED <<fed, peers, probe, sniff, capture, calls, listeners, CONNECTIONS, stats, gone, inC, readC, wroteS,
                   inS, readS, wroteC, buf, header, msg, resp, reply_header,
                   reply, steps, lifecycle, timing, frames, threw>>

\* Lines 510-515: req = socket.recv(16), the break on an empty read,
\* extract_header.
RecvHeader ==
    /\ pc = "recv_header"
    /\ \E a \in Arrivals(inC, gone.client, HeaderLen, ClientSends),
          T \in Raises({"on_close"}) :
        LET req == a.data
            h == extract_header(req)
            now == clock + 1
        IN  /\ inC' = a.rest
            /\ gone' = [gone EXCEPT !.client = a.gone]
            /\ frames' = frames + a.sent
            /\ readC' = readC \o req
            /\ clock' = now
            /\ IF a.kind = "error"
               THEN /\ Leave("io_error", TRUE, stats, timing, <<>>, FALSE, now, T)
                    /\ UNCHANGED <<buf, header>>
               ELSE IF Len(req) = 0
               THEN /\ Leave("eof", FALSE, stats, timing, <<>>, FALSE, now, T)
                    /\ buf' = req
                    /\ UNCHANGED header
               ELSE IF ~h.ok
               THEN /\ Leave("bad_header", TRUE, stats, timing, <<>>, FALSE, now, T)
                    /\ buf' = req
                    /\ UNCHANGED header
               ELSE /\ Stay("recv_body", timing, <<>>, FALSE)
                    /\ buf' = req
                    /\ header' = h.header
    /\ UNCHANGED <<fed, peers, probe, sniff, capture, calls, listeners, stats, wroteS, inS, readS, wroteC, msg, resp,
                   reply_header, reply>>

\* Lines 516-532 up to the s.sendall(buf) of the handler: the one recv of
\* the body, the counter, the decode and the events before the write.
RecvBody ==
    /\ pc = "recv_body"
    /\ \E a \in Arrivals(inC, gone.client, header.length - HeaderLen, ClientSends),
          T \in Raises(Range(BeforeSeq(header.operation)) \cup {"on_close"}) :
        LET b == buf \o a.data
            now == clock + 1
            op == header.operation
            counts == bump(stats, op)
            dec == IF op \in TypedOps THEN decode_typed(header, b) ELSE Failed
            r == RunEvents(BeforeSeq(op), dec.msg, timing, now, T)
        IN  /\ inC' = a.rest
            /\ gone' = [gone EXCEPT !.client = a.gone]
            /\ frames' = frames + a.sent
            /\ readC' = readC \o a.data
            /\ clock' = now
            /\ IF a.kind = "error"
               THEN /\ Leave("io_error", TRUE, stats, timing, steps, threw, now, T)
                    /\ UNCHANGED <<buf, stats, msg>>
               ELSE /\ buf' = b
                    /\ stats' = counts
                    /\ IF op \notin TypedOps
                       THEN /\ Stay("send_upstream", timing, steps, threw)
                            /\ UNCHANGED msg
                       ELSE IF ~dec.ok
                       THEN /\ Leave("decode_error", TRUE, counts, timing,
                                     steps, threw, now, T)
                            /\ UNCHANGED msg
                       ELSE /\ msg' = dec.msg
                            /\ IF r.raised
                               THEN Leave("listener_error", TRUE, counts,
                                          r.timing, r.steps, r.threw, now, T)
                               ELSE Stay("send_upstream", r.timing, r.steps,
                                         r.threw)
    /\ UNCHANGED <<fed, peers, probe, sniff, capture, calls, listeners, wroteS, inS, readS, wroteC, header, resp,
                   reply_header, reply>>

\* s.sendall(buf) and what follows it up to the next blocking call: the
\* events after the write and, for a Query or a GetMore, before the reply.
SendUpstream ==
    /\ pc = "send_upstream"
    /\ \E sent \in BOOLEAN,
          T \in Raises(Range(AfterSendSeq(header.operation)) \cup {"on_close"}) :
        LET now == clock + 1
            op == header.operation
            r == RunEvents(AfterSendSeq(op), msg, timing, now, T)
            done == Append(steps, IoStep("write_upstream")) \o r.steps
        IN  /\ clock' = now
            /\ IF ~sent
               THEN /\ Leave("io_error", TRUE, stats, timing, steps, threw, now, T)
                    /\ UNCHANGED wroteS
               ELSE /\ wroteS' = sendall(wroteS, buf)
                    /\ IF r.raised
                       THEN Leave("listener_error", TRUE, stats, r.timing,
                                  done, threw \/ r.threw, now, T)
                       ELSE Stay(IF ExpectsReply(op) THEN "reply_header"
                                 ELSE "recv_header",
                                 r.timing, done, threw \/ r.threw)
    /\ UNCHANGED <<fed, peers, probe, sniff, capture, calls, listeners, stats, gone, inC, readC, inS, readS, wroteC, buf,
                   header, msg, resp, reply_header, reply, frames>>

\* handle_reply, lines 432-437: resp = s.recv(16), extract_header, the
\* counter of the reply's operation code.
ReplyHeader ==
    /\ pc = "reply_header"
    /\ \E a \in Arrivals(inS, gone.upstream, HeaderLen,
                         UpstreamSends(header.request_id)),
          T \in Raises({"on_close"}) :
        LET h == extract_header(a.data)
            now == clock + 1
            done == Append(steps, IoStep("read_upstream"))
        IN  /\ inS' = a.rest
            /\ gone' = [gone EXCEPT !.upstream = a.gone]
            /\ readS' = readS \o a.data
            /\ clock' = now
            /\ IF a.kind = "error"
               THEN /\ Leave("io_error", TRUE, stats, timing, steps, threw, now, T)
                    /\ UNCHANGED <<resp, reply_header, stats>>
               ELSE IF ~h.ok
               THEN /\ Leave("bad_header", TRUE, stats, timing, done, threw, now, T)
                    /\ resp' = a.data
                    /\ UNCHANGED <<reply_header, stats>>
               ELSE /\ Stay("reply_body", timing, done, threw)
                    /\ resp' = a.data
                    /\ reply_header' = h.header
                    /\ stats' = bump(stats, h.header.operation)
    /\ UNCHANGED <<fed, peers, probe, sniff, capture, calls, listeners, inC, readC, wroteS, wroteC, buf, header, msg,
                   reply, frames>>

\* handle_reply, lines 439-448: one s.recv of what the reply still lacks;
\* with the reply complete, its decode and the before_reply event.  An
\* empty read leaves resp as it is and the loop calls recv again.
ReplyBody ==
    /\ pc = "reply_body"
    /\ \E a \in Arrivals(inS, gone.upstream, reply_header.length - Len(resp), {}),
          T \in Raises({"before_reply", "on_close"}) :
        LET resp1 == resp \o a.data
            now == clock + 1
            dec == decode_reply(reply_header, resp1)
            r == RunEvents(<<"before_reply">>, dec.msg, timing, now, T)
        IN  /\ inS' = a.rest
            /\ gone' = [gone EXCEPT !.upstream = a.gone]
            /\ readS' = readS \o a.data
            /\ IF a.kind = "error"
               THEN /\ Leave("io_error", TRUE, stats, timing, steps, threw, now, T)
                    /\ clock' = now
                    /\ UNCHANGED <<resp, reply>>
               ELSE IF Len(resp1) < reply_header.length
               THEN /\ Stay("reply_body", timing, steps, threw)
                    /\ resp' = resp1
                    /\ clock' = IF a.data = <<>> THEN clock ELSE now
                    /\ UNCHANGED reply
               ELSE /\ resp' = resp1
                    /\ clock' = now
                    /\ IF ~dec.ok
                       THEN /\ Leave("decode_error", TRUE, stats, timing, steps,
                                     threw, now, T)
                            /\ UNCHANGED reply
                       ELSE /\ reply' = dec.msg
                            /\ IF r.raised
                               THEN Leave("listener_error", TRUE, stats,
                                          r.timing, steps \o r.steps,
                                          threw \/ r.threw, now, T)
                               ELSE Stay("send_client", r.timing,
                                         steps \o r.steps, threw \/ r.threw)
    /\ UNCHANGED <<fed, peers, probe, sniff, capture, calls, listeners, stats, inC, readC, wroteS, wroteC, buf, header,
                   msg, reply_header, frames>>

\* handle_reply, lines 449-450, and the rest of handle_query / handle_more:
\* socket.sendall(resp), after_reply, after_<op>_reply, after_<op>.
SendClient ==
    /\ pc = "send_client"
    /\ \E sent \in BOOLEAN,
          T \in Raises({"after_reply", "on_close"}
                       \cup Range(AfterReplySeq(header.operation))) :
        LET now == clock + 1
            r1 == RunEvents(<<"after_reply">>, reply, timing, now, T)
            r == run_events(listeners, AfterReplySeq(header.operation), msg,
                            now, T, 1, r1)
            done == Append(steps, IoStep("write_client")) \o r.steps
        IN  /\ clock' = now
            /\ IF ~sent
               THEN /\ Leave("io_error", TRUE, stats, timing, steps, threw, now, T)
                    /\ UNCHANGED wroteC
               ELSE /\ wroteC' = sendall(wroteC, resp)
                    /\ IF r.raised
                       THEN Leave("listener_error", TRUE, stats, r.timing,
                                  done, threw \/ r.threw, now, T)
                       ELSE Stay("recv_header", r.timing, done,
                                 threw \/ r.threw)
    /\ UNCHANGED <<fed, peers, probe, sniff, capture, calls, listeners, stats, gone, inC, readC, wroteS, inS, readS, buf,
                   header, msg, resp, reply_header, reply, frames>>

\* ------------------------------------------------------------------------
\* The inline proxy: one session from accept to the end of proxy()
\* ------------------------------------------------------------------------

\* The add_listener calls made before start(): __main__ registers the
\* TimingListener, after the RawLoggingListener with --raw; a program that
\* embeds MongoProxy registers listeners of its own.
Registrations ==
    {<<"timing">>, <<"raw", "timing">>, <<"user", "timing">>,
     <<"timing", "user", "timing">>}

RECURSIVE Registered(_, _)
Registered(added, ls) ==
    IF added = <<>> THEN ls
    ELSE Registered(Tail(added), add_listener(ls, Head(added)))

\* What both programs start from: the listeners registered, nothing read.
\* sniff.file is options.file of the sniffer: a capture file was named.
Fresh ==
    /\ calls \in Registrations
    /\ listeners = Registered(calls, <<>>)
    /\ CONNECTIONS = {}
    /\ stats = EmptyDict
    /\ sock = [client |-> "open", upstream |-> "none"]
    /\ gone = [client |-> FALSE, upstream |-> FALSE]
    /\ inC = <<>>
    /\ readC = <<>>
    /\ wroteS = <<>>
    /\ inS = <<>>
    /\ readS = <<>>
    /\ wroteC = <<>>
    /\ buf = <<>>
    /\ header = NoHeader
    /\ msg = [header |-> NoHeader, collection |-> <<>>]
    /\ resp = <<>>
    /\ reply_header = NoHeader
    /\ reply = [header |-> NoHeader]
    /\ steps = <<>>
    /\ lifecycle = <<>>
    /\ timing = [requests |-> EmptyDict, stats |-> {}]
    /\ frames = 0
    /\ clock = 0
    /\ threw = FALSE
    /\ cause = "none"
    /\ sniff \in {[requests |-> EmptyDict, frame_number |-> 1,
                   pdus |-> EmptyDict, file |-> f] : f \in BOOLEAN}
    /\ capture = <<>>
    /\ fed = <<>>

\* Neither two sessions at once nor a buffer given to the codec alone.
Alone == peers = <<>> /\ probe = <<>>

Init == Fresh /\ Alone /\ pc = "accept" /\ sniff.file

Next ==
    \/ ProxyStart
    \/ Connect
    \/ RecvHeader
    \/ RecvBody
    \/ SendUpstream
    \/ ReplyHeader
    \/ ReplyBody
    \/ SendClient

Spec == Init /\ [][Next]_vars

\* The session under gevent's scheduling: a greenlet whose socket call can
\* return is run.
LiveSpec == Spec /\ WF_vars(Next)


\* ------------------------------------------------------------------------
\* mongo_sniff.py: the listeners
\* ------------------------------------------------------------------------

\* hasattr(message, name)
HasAttr(message, name) == name \in DOMAIN message

\* TimingListener._before of the sniffer: the envelope is kept.
sniff_timing_before(e, t) ==
    NoEffect([t EXCEPT !.requests = DictSet(@, e.header.request_id, e)])

\* TimingListener._after of the sniffer.  A Query returns at once; a Reply
\* looks its request up by response_to (KeyError when it is missing); the
\* namespace is split at its dot (ValueError without one); after the _log
\* call the entries under response_to and under request_id are deleted.
sniff_timing_after(e, t) ==
    LET op == e.header.operation
        pending == t.requests
        start == IF e.header.response_to \in DOMAIN pending
                 THEN pending[e.header.response_to].ts ELSE 0
        stop == e.ts
        dur == IF start # 0 /\ stop # 0 THEN stop - start ELSE 0
        rest == DictDel(DictDel(pending, e.header.response_to),
                        e.header.request_id)
        logged(kind, rid) ==
            [timing |-> [t EXCEPT !.requests = rest],
             lat |-> <<[kind |-> kind, request_id |-> rid, elapsed |-> dur]>>,
             raised |-> FALSE]
    IN  IF op = OP_QUERY THEN NoEffect(t)
        ELSE IF op \in {OP_GETMORE, OP_INSERT, OP_UPDATE, OP_DELETE}
        THEN IF Dot \notin Range(e.message.collection) THEN Raise(t)
             ELSE IF op = OP_GETMORE /\ ~HasAttr(e.message, "documents")
             THEN Raise(t)
             ELSE logged("request", e.header.request_id)
        ELSE IF op = OP_REPLY
        THEN IF e.header.response_to \notin DOMAIN pending THEN Raise(t)
             ELSE LET query_orig == pending[e.header.response_to]
                  IN  IF Dot \notin Range(query_orig.message.collection)
                      THEN Raise(t)
                      ELSE IF ~HasAttr(query_orig.message, "query")
                              /\ ~HasAttr(query_orig.message, "cursor_id")
                      THEN Raise(t)
                      ELSE logged("reply", query_orig.header.request_id)
        ELSE Raise(t)

\* getattr(listener, fname)(envelope) in the sniffer.  Its
\* RawLoggingListener reads envelope.collection in before_more, which an
\* Envelope does not have.
sniff_callback(l, fname, e, t, T) ==
    CASE l = "timing" ->
            IF fname \in BeforeEvents THEN sniff_timing_before(e, t)
            ELSE IF fname \in AfterEvents THEN sniff_timing_after(e, t)
            ELSE NoEffect(t)
      [] l = "raw" -> IF fname = "before_more" THEN Raise(t) ELSE NoEffect(t)
      [] l = "user" -> IF fname \in T THEN Raise(t) ELSE NoEffect(t)
      [] OTHER -> NoEffect(t)

\* The loop of the sniffer's _invoke_callback: as in the proxy, with the
\* exception printed.
RECURSIVE sniff_invoke_from(_, _, _, _, _, _)
sniff_invoke_from(ls, i, fname, e, T, acc) ==
    IF i > Len(ls) THEN acc
    ELSE LET r == sniff_callback(ls[i], fname, e, acc.timing, T)
         IN  sniff_invoke_from(ls, i + 1, fname, e, T,
                 [to |-> Append(acc.to, ls[i]), timing |-> r.timing,
                  lat |-> acc.lat \o r.lat, threw |-> acc.threw \/ r.raised,
                  raised |-> FALSE])

\* MongoProxy._invoke_callback of the sniffer
sniff_invoke_callback(ls, fname, e, t, T) ==
    sniff_invoke_from(ls, 1, fname, e, T, NoDispatch(t))

\* ------------------------------------------------------------------------
\* mongo_sniff.py: MongoProxy._handle_packet and dump_pcap
\* ------------------------------------------------------------------------

\* A dispatch that pairs the Reply with its query before after_reply.
SniffEventsPaired(op) ==
    CASE op = OP_QUERY -> <<"before_query", "after_query">>
      [] op = OP_DELETE -> <<"before_delete", "after_delete">>
      [] op = OP_INSERT -> <<"before_insert", "after_insert">>
      [] op = OP_UPDATE -> <<"before_update", "after_update">>
      [] op = OP_GETMORE -> <<"before_more", "after_more">>
      [] op = OP_REPLY -> <<"before_reply", "after_query", "after_reply">>
      [] OTHER -> <<>>

\* The events _handle_packet dispatches for a chunk, back to back.
SniffEvents(op) ==
    CASE op = OP_QUERY -> <<"before_query", "after_query">>
      [] op = OP_DELETE -> <<"before_delete", "after_delete">>
      [] op = OP_INSERT -> <<"before_insert", "after_insert">>
      [] op = OP_UPDATE -> <<"before_update", "after_update">>
      [] op = OP_GETMORE -> <<"before_more", "after_more">>
      [] op = OP_REPLY -> <<"before_reply", "after_reply", "after_query">>
      [] OTHER -> <<>>

RECURSIVE sniff_run_events(_, _, _, _, _, _)
sniff_run_events(ls, evs, e, T, i, acc) ==
    IF i > Len(evs) \/ acc.raised THEN acc
    ELSE LET d == sniff_invoke_callback(ls, evs[i], e, acc.timing, T)
         IN  sniff_run_events(ls, evs, e, T, i + 1,
                 [steps |-> Append(acc.steps, EventStep(evs[i], d)),
                  timing |-> d.timing, threw |-> acc.threw \/ d.threw,
                  raised |-> d.raised])

\* The comparison of two byte strings that sorted() makes for tuples of the
\* same identifier.
RECURSIVE BytesLess(_, _)
BytesLess(a, b) ==
    IF a = <<>> THEN b # <<>>
    ELSE IF b = <<>> THEN FALSE
    ELSE IF Head(a) # Head(b) THEN Head(a) < Head(b)
    ELSE BytesLess(Tail(a), Tail(b))

\* sorted(pdu_list): tuples (ip_id, data) in ascending order.
RECURSIVE sorted(_)
sorted(l) ==
    IF Len(l) <= 1 THEN l
    ELSE LET x == l[Len(l)]
             s == sorted(SubSeq(l, 1, Len(l) - 1))
             k == Cardinality({i \in DOMAIN s :
                      \/ s[i].id < x.id
                      \/ s[i].id = x.id /\ ~BytesLess(x.data, s[i].data)})
         IN  SubSeq(s, 1, k) \o <<x>> \o SubSeq(s, k + 1, Len(s))

\* "".join([x[1] for x in packets])
RECURSIVE join(_)
join(packets) ==
    IF packets = <<>> THEN <<>>
    ELSE Head(packets).data \o join(Tail(packets))

\* The inner loop `while len(buf) > header.length`, entered with the header
\* of buf: a chunk of header.length bytes is split off and the header of
\* the rest is extracted, which raises "Bad header" on fewer than 16 bytes.
\* With header.length = 0 the loop appends empty chunks and never ends.
RECURSIVE split_messages(_, _)
split_messages(b, out) ==
    LET h == sniff_extract_header(b)
    IN  IF ~h.ok THEN [status |-> "raised", buf |-> b, chunks |-> out]
        ELSE IF h.header.length \in Int /\ Len(b) > h.header.length
        THEN IF h.header.length = 0
             THEN [status |-> "hung", buf |-> b, chunks |-> out]
             ELSE split_messages(SliceFrom(b, h.header.length),
                                 Append(out, Slice(b, 0, h.header.length)))
        ELSE [status |-> "ok", buf |-> b, chunks |-> out]

\* The index at which the run of consecutive identifiers that starts the
\* sorted list ends (idx, counted from 0).
run_end(pdu_list) ==
    LET runs == {m \in 0..(Len(pdu_list) - 1) :
                    \A j \in 1..m : pdu_list[j].id = pdu_list[j + 1].id - 1}
    IN  CHOOSE m \in runs : \A o \in runs : o <= m

\* The buffer of the packets that are worked off, split into its messages
\* (a buffer of 16 bytes or less is dropped).
split_joined(b, chunks) ==
    IF Len(b) > HeaderLen THEN split_messages(b, chunks)
    ELSE [status |-> "skip", buf |-> b, chunks |-> chunks]

\* header.length == len(buf) after the inner loop
is_whole(s) ==
    /\ s.status = "ok"
    /\ sniff_extract_header(s.buf).header.length = Len(s.buf)

\* The loop `while len(pdu_list) > 0` of _reassemble_if_possible.  stored is
\* self.pdus[src], pdu_list the local list, chunks is mongo_chunks.  The
\* field `from` of a pending tuple and the set joined are not in the code:
\* they keep the endpoints whose bytes a buffer holds.
RECURSIVE reassemble_loop(_, _, _, _, _)

\* The end of a pass: a single pending buffer of more than 16 bytes is
\* emitted when it is a whole message (self.pdus[src] is emptied, the local
\* list is not) and ends the loop otherwise.
end_of_pass(pkt, after, out, mixed, single, whole) ==
    IF single /\ ~whole
    THEN [status |-> "ok", stored |-> after, chunks |-> out,
          joined |-> mixed]
    ELSE reassemble_loop(pkt, IF whole THEN <<>> ELSE after, after,
                         IF whole THEN Append(out, after[1].data) ELSE out,
                         mixed)

\* The pending list and the chunks after the last buffer of a pass.
pass_result(pkt, after, out, mixed, single) ==
    end_of_pass(pkt, after, out, mixed, single,
                single /\ sniff_extract_header(after[1].data).header.length
                              = Len(after[1].data))

\* The middle of a pass: the last buffer is emitted when it is a whole
\* message and is appended to the pending list, under the identifier of the
\* current packet, when it is not; an exception or the endless inner loop
\* ends the call with self.pdus[src] already rebound.
keep_or_emit(pkt, rest, origin, s, mixed, whole) ==
    IF s.status \in {"raised", "hung"}
    THEN [status |-> s.status, stored |-> rest, chunks |-> s.chunks,
          joined |-> mixed]
    ELSE LET after == IF s.status = "ok" /\ ~whole
                      THEN Append(rest, [id |-> pkt.id, data |-> s.buf,
                                         from |-> origin])
                      ELSE rest
         IN  pass_result(pkt, after,
                 IF whole THEN Append(s.chunks, s.buf) ELSE s.chunks, mixed,
                 Len(after) = 1 /\ Len(after[1].data) > HeaderLen)

\* The buffer of a pass, split.
split_pass(pkt, rest, origin, s, mixed) ==
    keep_or_emit(pkt, rest, origin, s, mixed, is_whole(s))

\* The start of a pass: the run of consecutive identifiers, or the whole
\* list when there is no run, is taken off the list and joined.
work_off(pkt, packets, rest, chunks, origin, joined) ==
    split_pass(pkt, rest, origin, split_joined(join(packets), chunks),
               joined \cup {origin})

reassemble_loop(pkt, stored, pdu_list, chunks, joined) ==
    IF Len(pdu_list) = 0
    THEN [status |-> "ok", stored |-> stored, chunks |-> chunks,
          joined |-> joined]
    ELSE LET idx == run_end(pdu_list)
             packets == IF idx > 0 THEN SubSeq(pdu_list, 1, idx + 1)
                        ELSE pdu_list
         IN  work_off(pkt, packets,
                      IF idx > 0 THEN SubSeq(pdu_list, idx + 2, Len(pdu_list))
                      ELSE <<>>,
                      chunks,
                      UNION {packets[i].from : i \in DOMAIN packets}, joined)

\* A reassembler that appends the payload to the pending list of its
\* source and leaves the list as it is.
append_only(pdus, pkt) ==
    IF Len(pkt.data) > HeaderLen
    THEN IF sniff_extract_header(pkt.data).header.length = Len(pkt.data)
         THEN [status |-> "ok", chunks |-> <<pkt.data>>, pdus |-> pdus,
               joined |-> {}]
         ELSE [status |-> "ok", chunks |-> <<>>,
               pdus |-> DictSet(pdus, pkt.src,
                            Append(IF pkt.src \in DOMAIN pdus
                                   THEN pdus[pkt.src] ELSE <<>>,
                                   [id |-> pkt.id, data |-> pkt.data,
                                    from |-> {<<pkt.src, pkt.sport>>}])),
               joined |-> {{<<pkt.src, pkt.sport>>}}]
    ELSE [status |-> "ok", chunks |-> <<>>, pdus |-> pdus, joined |-> {}]

\* _reassemble_if_possible for the packet pkt = [src, sport, id, data] (its
\* source address and port, its IP identifier, its TCP payload): a payload
\* of 16 bytes or less gives no chunk, a payload that is one whole message
\* is returned, any other is appended to the pending list of its source
\* address and the list is worked off.
reassemble_if_possible(pdus, pkt) ==
    IF Len(pkt.data) > HeaderLen
    THEN IF sniff_extract_header(pkt.data).header.length = Len(pkt.data)
         THEN [status |-> "ok", chunks |-> <<pkt.data>>, pdus |-> pdus,
               joined |-> {}]
         ELSE LET before == IF pkt.src \in DOMAIN pdus THEN pdus[pkt.src]
                            ELSE <<>>
                  listed == Append(before,
                                [id |-> pkt.id, data |-> pkt.data,
                                 from |-> {<<pkt.src, pkt.sport>>}])
                  r == reassemble_loop(pkt, listed, sorted(listed), <<>>, {})
              IN  [status |-> r.status, chunks |-> r.chunks,
                   pdus |-> DictSet(pdus, pkt.src, r.stored),
                   joined |-> r.joined]
    ELSE [status |-> "ok", chunks |-> <<>>, pdus |-> pdus, joined |-> {}]

\* What the body of the loop over the chunks leaves behind when the try
\* block ends at an exception or at "Unhandled op".
NoEvents(h, failed) ==
    [header |-> h, events |-> <<>>, threw |-> FALSE, error |-> failed]

\* One pass of the loop `for chunk in mongo_chunks`: the header, the entry
\* in MongoProxy.requests, the parse, the events; any exception is printed;
\* frame_number goes up by one.
handle_chunk(chunk, ts, T, acc) ==
    LET h == sniff_extract_header(chunk)
        counted == [acc.sniff EXCEPT !.frame_number = @ + 1]
        stamped == [counted EXCEPT
                        !.requests = DictSet(@, h.header.request_id, ts)]
        p == parse_chunk(h.header, chunk)
        e == [header |-> h.header, message |-> p.msg, ts |-> ts]
        r == sniff_run_events(listeners, SniffEvents(h.header.operation), e,
                              T, 1, [steps |-> <<>>, timing |-> acc.timing,
                                     threw |-> FALSE, raised |-> FALSE])
    IN  IF ~h.ok
        THEN [acc EXCEPT !.sniff = counted,
                         !.capture = Append(@, NoEvents(NoHeader, TRUE))]
        ELSE IF h.header.operation \notin SniffedOps
        THEN [acc EXCEPT !.sniff = stamped,
                         !.capture = Append(@, NoEvents(h.header, FALSE))]
        ELSE IF ~p.ok
        THEN [acc EXCEPT !.sniff = stamped,
                         !.capture = Append(@, NoEvents(h.header, TRUE))]
        ELSE [sniff |-> stamped,
              timing |-> r.timing,
              capture |-> Append(acc.capture,
                                 [header |-> h.header, events |-> r.steps,
                                  threw |-> r.threw, error |-> r.raised])]

RECURSIVE handle_chunks(_, _, _, _, _)
handle_chunks(chunks, i, ts, T, acc) ==
    IF i > Len(chunks) THEN acc
    ELSE handle_chunks(chunks, i + 1, ts, T, handle_chunk(chunks[i], ts, T, acc))

\* The TCP payloads of the captured packets: requests, replies to them (the
\* first with a request_id of its own that a pending request also has) and
\* a message _handle_packet has no branch for.
Packets ==
    {QueryFrame(1, NsDotted), GetMoreFrame(2, NsDotted),
     InsertFrame(4, NsDotted), ReplyFrame(2, 1), ReplyFrame(9, 2),
     KillCursorsFrame(7)}

\* The events a listener of an embedding program raises on: all of them.
SniffRaises ==
    {BeforeEvents \cup AfterEvents
         \cup {"before_reply", "after_reply", "after_more"}}

\* The end of _handle_packet: what the loop over the chunks left behind.
Handled(done) ==
    /\ sniff' = done.sniff
    /\ timing' = done.timing
    /\ capture' = done.capture
    /\ pc' = pc

\* _handle_packet after the reassembler gave r.  An exception of the
\* reassembler is raised outside the try block: it leaves _handle_packet,
\* dispatch and dump_pcap, which catches KeyboardInterrupt and PcapError
\* only.  fed keeps what the reassembler was given and what it returned.
Reassembled(pkt, r, ts, T) ==
    /\ clock' = ts
    /\ fed' = Append(fed, [pkt |-> pkt, status |-> r.status,
                           chunks |-> r.chunks, joined |-> r.joined])
    /\ IF r.status = "ok"
       THEN Handled(handle_chunks(r.chunks, 1, ts, T,
                        [sniff |-> [sniff EXCEPT !.pdus = r.pdus],
                         timing |-> timing, capture |-> capture]))
       ELSE /\ sniff' = [sniff EXCEPT !.pdus = r.pdus]
            /\ pc' = IF r.status = "hung" THEN "hung" ELSE "crashed"
            /\ UNCHANGED <<timing, capture>>

\* _handle_packet for the packet pkt.
HandlePacketOf(pkt) ==
    /\ pc = "capture"
    /\ \E T \in SniffRaises :
        Reassembled(pkt, reassemble_if_possible(sniff.pdus, pkt), clock + 1, T)
    /\ UNCHANGED <<peers, probe, calls, listeners, CONNECTIONS, stats, sock,
                   gone, inC,
                   readC, wroteS, inS, readS, wroteC, buf, header, msg, resp,
                   reply_header, reply, steps, lifecycle, frames, threw, cause>>

\* The two ends of the captured connection and a second connection of the
\* client's host: <<address, port>>.
Client == <<"10.0.0.1", 1>>
Client2 == <<"10.0.0.1", 2>>
Server == <<"10.0.0.2", 3>>

Packet(from, id, data) ==
    [src |-> from[1], sport |-> from[2], id |-> id, data |-> data]

\* _handle_packet, for the next packet of a capture in which every packet
\* carries one whole message.
HandlePacket ==
    /\ sniff.frame_number <= MaxChunks
    /\ \E data \in Packets :
        HandlePacketOf(Packet(IF sniff_extract_header(data).header.operation
                                     = OP_REPLY THEN Server ELSE Client,
                              Len(fed) + 1, data))

\* The loop ends whenever dispatch read nothing.
ends_loop_any(read, file) == read = 0

\* dump_pcap: `if read == 0 and self.options.file: break`
ends_loop(read, file) == read = 0 /\ file

\* dump_pcap: dispatch returns 0, no packet was read.  Reading a file the
\* loop is left, dump_pcap returns and main() goes on to sys.exit(0); in a
\* live capture the loop calls dispatch again.
EndOfCapture ==
    /\ pc = "capture"
    /\ pc' = IF ends_loop(0, sniff.file) THEN "exit" ELSE "capture"
    /\ cause' = "no_packet"
    /\ UNCHANGED <<fed, peers, probe, sniff, capture, calls, listeners, CONNECTIONS, stats, sock,
                   gone, inC, readC, wroteS, inS, readS, wroteC, buf, header,
                   msg, resp, reply_header, reply, steps, lifecycle, timing,
                   frames, clock, threw>>

\* dump_pcap: the user interrupts the capture; the except clause passes,
\* dump_pcap returns and main() goes on to sys.exit(0).
Interrupt ==
    /\ pc = "capture"
    /\ pc' = "exit"
    /\ cause' = "interrupt"
    /\ UNCHANGED <<fed, peers, probe, sniff, capture, calls, listeners, CONNECTIONS, stats, sock,
                   gone, inC, readC, wroteS, inS, readS, wroteC, buf, header,
                   msg, resp, reply_header, reply, steps, lifecycle, timing,
                   frames, clock, threw>>

\* dump_pcap: self.r.dispatch raises pcapy.PcapError; the except clause
\* prints it, dump_pcap returns and main() goes on to sys.exit(0).
CaptureError ==
    /\ pc = "capture"
    /\ pc' = "exit"
    /\ cause' = "pcap_error"
    /\ UNCHANGED <<fed, peers, probe, sniff, capture, calls, listeners, CONNECTIONS, stats, sock,
                   gone, inC, readC, wroteS, inS, readS, wroteC, buf, header,
                   msg, resp, reply_header, reply, steps, lifecycle, timing,
                   frames, clock, threw>>

\* The exit code of the sniffer's process: sys.exit(0) in main(), 1 when an
\* exception leaves main(), none (-1) while it runs or spins.
ExitCode ==
    CASE pc = "exit" -> 0
      [] pc = "crashed" -> 1
      [] OTHER -> -1

SniffInit == Fresh /\ Alone /\ pc = "capture"

SniffNext ==
    \/ HandlePacket
    \/ EndOfCapture
    \/ Interrupt
    \/ CaptureError

SniffSpec == SniffInit /\ [][SniffNext]_vars

\* Both programs: a behaviour is one inline session or one capture.
BothInit == Init \/ SniffInit

BothNext ==
    \/ Next
    \/ SniffNext

BothSpec == BothInit /\ [][BothNext]_vars

\* ------------------------------------------------------------------------
\* mongo_sniff.py: a capture whose messages do not come one per packet
\* ------------------------------------------------------------------------

\* A message cut in two TCP segments after its first `at` bytes, sent from
\* one endpoint with the consecutive IP identifiers id and id + 1.
Cut(from, id, frame, at) ==
    {Packet(from, id, Slice(frame, 0, at)),
     Packet(from, id + 1, SliceFrom(frame, at))}

\* The messages of the capture that arrive cut in two: an Update of the
\* client (20 + 18 bytes), an Update of the client's second connection
\* whose tail has 16 bytes, a Reply cut inside its cursor id where four
\* zero bytes follow, and a Reply cut at its cursor id.
Fragmented ==
    {Cut(Client, 1, UpdateFrame(1, NsDotted), 20),
     Cut(Client2, 3, UpdateFrame(3, NsDotted), 22),
     Cut(Server, 1, ReplyFrame(9, 1), 21),
     Cut(Server, 3, ReplyFrame(10, 3), 20)}

\* A packet that ends inside a message: a Query and the first ten bytes of
\* the Insert that follows it.
Pipelined ==
    Packet(Client, 7,
           QueryFrame(7, NsDotted) \o Slice(InsertFrame(8, NsDotted), 0, 10))

\* The packets of the capture: the segments of the cut messages, a packet
\* with two pipelined requests, a Reply in a packet of its own, and the
\* packet that ends inside a message.
Segments ==
    UNION Fragmented
        \cup {Packet(Client, 5,
                     QueryFrame(5, NsDotted) \o InsertFrame(6, NsDotted)),
              Packet(Server, 6, ReplyFrame(11, 5)),
              Pipelined}

\* _handle_packet, for a packet of the capture that was not seen before.
HandleSegment ==
    /\ Len(fed) < MaxChunks
    /\ \E pkt \in Segments :
        /\ \A i \in DOMAIN fed : fed[i].pkt # pkt
        /\ HandlePacketOf(pkt)

ReasmInit == Fresh /\ Alone /\ pc = "capture" /\ sniff.file

ReasmNext ==
    \/ HandleSegment
    \/ EndOfCapture
    \/ Interrupt
    \/ CaptureError

ReasmSpec == ReasmInit /\ [][ReasmNext]_vars

\* ------------------------------------------------------------------------
\* The codecs alone: a buffer is given to the functions of both programs
\* ------------------------------------------------------------------------

\* The greatest total_length a header under test claims.
MaxLength == 17

\* Headers that claim every length from 0 to MaxLength, whole, a byte
\* short, a byte long, and the empty buffer.
HeaderBuffers ==
    UNION {LET h == WireHeader(l, id, 0, op)
           IN  {h, Slice(h, 0, HeaderLen - 1), h \o <<0>>, <<>>} :
               l \in 0..MaxLength, id \in {1}, op \in {OP_QUERY, OP_REPLY, 3000}}

\* Headers of 16 bytes with the top bit of one field set: request_id,
\* response_to, operation.
WideHeaders ==
    {WireHeader(HeaderLen, -1, 0, OP_QUERY),
     WireHeader(HeaderLen, 1, -1, OP_REPLY),
     WireHeader(HeaderLen, 1, 0, -1)}

\* extract_header of the proxy and of the sniffer, called on one buffer.
ExtractHeader ==
    /\ pc = "codec"
    /\ \E b \in HeaderBuffers \cup WideHeaders :
        probe' = [resp |-> b, proxy |-> extract_header(b),
                  sniffer |-> sniff_extract_header(b)]
    /\ UNCHANGED <<fed, peers, sniff, capture, calls, listeners, pc,
                   CONNECTIONS, stats, sock, gone, inC, readC, wroteS, inS,
                   readS, wroteC, buf, header, msg, resp, reply_header,
                   reply, steps, lifecycle, timing, frames, clock, threw,
                   cause>>

\* The greatest number of embedded documents a message under test carries.
MaxEmbedded == 3

\* The BSON document {"k": n}: its size, an int32 element, the end byte.
Doc(n) == <<12, 0, 0, 0, 16, 107, 0, n, 0, 0, 0, 0>>

\* What bson.decode_all gives for Doc(n), as the model keeps a document.
Elements(n) == <<16, 107, 0, n, 0, 0, 0>>

RECURSIVE Concat(_)
Concat(ss) == IF ss = <<>> THEN <<>> ELSE Head(ss) \o Concat(Tail(ss))

\* The message a client library puts on the wire for an operation, its
\* flags and its documents, after the MongoDB wire protocol: Update and
\* Delete carry a zero word, the namespace and the flags; Query and Insert
\* carry the flags and the namespace.
MessageOf(sent) ==
    LET docs == Concat([i \in 1..sent.k |-> Doc(i)])
    IN  CASE sent.op \in {OP_UPDATE, OP_DELETE} ->
                 Frame(1, 0, sent.op, PackI32(0) \o NsDotted \o <<0>>
                                          \o PackI32(sent.flags) \o docs)
          [] sent.op = OP_QUERY ->
                 Frame(1, 0, sent.op, PackI32(sent.flags) \o NsDotted \o <<0>>
                                          \o PackI32(0) \o PackI32(0) \o docs)
          [] sent.op = OP_INSERT ->
                 Frame(1, 0, sent.op, PackI32(sent.flags) \o NsDotted \o <<0>>
                                          \o docs)

\* The handlers' decode and the sniffer's parse, called on one message as
\* proxy() and _handle_packet call them: with the header extracted from the
\* first 16 bytes and the whole buffer.
Decode ==
    /\ pc = "codec"
    /\ \E op \in {OP_UPDATE, OP_DELETE, OP_QUERY, OP_INSERT},
          flags \in 0..3, k \in 1..MaxEmbedded :
        LET sent == [op |-> op, flags |-> flags, k |-> k]
            b == MessageOf(sent)
            h == extract_header(Slice(b, 0, HeaderLen))
            sh == sniff_extract_header(b)
        IN  probe' = [resp |-> b, proxy |-> h, sniffer |-> sh, sent |-> sent,
                      decoded |-> [proxy |-> decode_typed(h.header, b),
                                   sniffer |-> parse_chunk(sh.header, b)]]
    /\ UNCHANGED <<fed, peers, sniff, capture, calls, listeners, pc,
                   CONNECTIONS, stats, sock, gone, inC, readC, wroteS, inS,
                   readS, wroteC, buf, header, msg, resp, reply_header,
                   reply, steps, lifecycle, timing, frames, clock, threw,
                   cause>>

\* A message of operation op whose namespace is ns, and the same message
\* ending with the bytes of ns, before the NUL.
Named(op, ns) ==
    CASE op = OP_QUERY -> QueryFrame(1, ns)
      [] op = OP_GETMORE -> GetMoreFrame(1, ns)
      [] op = OP_INSERT -> InsertFrame(1, ns)
      [] op = OP_UPDATE -> UpdateFrame(1, ns)
      [] op = OP_DELETE -> DeleteFrame(1, ns)

Unterminated(op, ns) == Frame(1, 0, op, PackI32(0) \o ns)

\* The decode and the parse of a message whose namespace is empty, or is cut
\* off before its NUL.
DecodeNamespace ==
    /\ pc = "codec"
    /\ \E op \in TypedOps, ns \in {<<>>, NsDotted}, whole \in BOOLEAN :
        /\ whole => ns = <<>>
        /\ LET b == IF whole THEN Named(op, ns) ELSE Unterminated(op, ns)
               h == extract_header(Slice(b, 0, HeaderLen))
               sh == sniff_extract_header(b)
           IN  probe' = [resp |-> b, proxy |-> h, sniffer |-> sh,
                         named |-> [op |-> op, ns |-> ns, whole |-> whole],
                         parsed |-> [proxy |-> decode_typed(h.header, b),
                                     sniffer |-> parse_chunk(sh.header, b)]]
    /\ UNCHANGED <<fed, peers, sniff, capture, calls, listeners, pc,
                   CONNECTIONS, stats, sock, gone, inC, readC, wroteS, inS,
                   readS, wroteC, buf, header, msg, resp, reply_header,
                   reply, steps, lifecycle, timing, frames, clock, threw,
                   cause>>

CodecInit == Fresh /\ Alone /\ pc = "codec" /\ sniff.file

CodecNext ==
    \/ ExtractHeader
    \/ Decode
    \/ DecodeNamespace

CodecSpec == CodecInit /\ [][CodecNext]_vars

\* ------------------------------------------------------------------------
\* query/helpers.py: filter and _deep_get
\* ------------------------------------------------------------------------

\* The longest dotted path and the longest iterator given to filter.
MaxDepth == 3
MaxDocs == 2

\* A document maps the path of each of its scalars to the scalar:
\* {"a": {"b": {"a": 1}}, "b": {"a": 2}} and three more.  A value (what
\* dict.get returns) is such a map too: a scalar has the empty path alone,
\* None and the empty dict have no path.
Documents ==
    {(<<"a", "b", "a">> :> 1) @@ (<<"b", "a">> :> 2),
     (<<"a">> :> 1),
     (<<"a", "b">> :> 2),
     (<<"b", "a">> :> 1)}

IsScalar(v) == DOMAIN v = {<<>>}

\* obj.get(part)
Get(obj, part) ==
    [p \in {Tail(q) : q \in {r \in DOMAIN obj : r # <<>> /\ Head(r) = part}}
        |-> obj[<<part>> \o p]]

\* field.split(".")
RECURSIVE Split(_, _, _)
Split(field, word, parts) ==
    IF field = <<>> THEN Append(parts, word)
    ELSE IF Head(field) = "." THEN Split(Tail(field), <<>>, Append(parts, word))
    ELSE Split(Tail(field), Append(word, Head(field)), parts)

\* The dotted field of a path of one-letter keys.
RECURSIVE Dotted(_)
Dotted(path) ==
    IF Len(path) = 1 THEN path
    ELSE <<Head(path), ".">> \o Dotted(Tail(path))

\* _deep_get(obj, field) == value.  The loop over parts[0:-1] assigns
\* obj.get(part) each time; a scalar there has no attribute (the
\* AttributeError is "raised"); without a value there the result is False.
deep_get_equals(obj, field, value) ==
    LET parts == Split(field, <<>>, <<>>)
        n == Len(parts)
        found == Get(obj, parts[1][1])
        last_value == Get(obj, parts[n - 1][1])
        inner == Get(last_value, parts[n][1])
    IN  IF n = 1
        THEN [raised |-> FALSE, eq |-> IsScalar(found) /\ found[<<>>] = value]
        ELSE IF DOMAIN last_value = {}
        THEN [raised |-> FALSE, eq |-> FALSE]
        ELSE IF IsScalar(last_value)
        THEN [raised |-> TRUE, eq |-> FALSE]
        ELSE [raised |-> FALSE, eq |-> IsScalar(inner) /\ inner[<<>>] = value]

\* itertools.ifilter(lambda x: _deep_get(x, field) == value, iterator), read
\* to its end: the documents yielded, and whether an exception ended it.
RECURSIVE filter(_, _, _, _)
filter(iterator, field, value, out) ==
    IF iterator = <<>> THEN [ok |-> TRUE, docs |-> out]
    ELSE LET r == deep_get_equals(Head(iterator), field, value)
         IN  IF r.raised THEN [ok |-> FALSE, docs |-> out]
             ELSE filter(Tail(iterator), field, value,
                         IF r.eq THEN Append(out, Head(iterator)) ELSE out)

\* The dotted fields of up to MaxDepth keys and the iterators of up to
\* MaxDocs documents.
Fields ==
    {Dotted(p) : p \in UNION {[1..n -> {"a", "b"}] : n \in 1..MaxDepth}}

Iterators == UNION {[1..n -> Documents] : n \in 0..MaxDocs}

\* The calls of filter: an iterator, a dotted field and a value.
FilterCalls ==
    {[iterator |-> iterator, field |-> field, value |-> value] :
        iterator \in Iterators, field \in Fields, value \in {1, 2}}

\* The caller reads the filtered iterator to its end.
Filter ==
    /\ pc = "helpers"
    /\ "out" \notin DOMAIN probe
    /\ probe' = [iterator |-> probe.iterator, field |-> probe.field,
                 value |-> probe.value,
                 out |-> filter(probe.iterator, probe.field, probe.value,
                                <<>>)]
    /\ UNCHANGED <<fed, peers, sniff, capture, calls, listeners, pc,
                   CONNECTIONS, stats, sock, gone, inC, readC, wroteS, inS,
                   readS, wroteC, buf, header, msg, resp, reply_header,
                   reply, steps, lifecycle, timing, frames, clock, threw,
                   cause>>

HelperInit ==
    /\ Fresh
    /\ peers = <<>>
    /\ probe \in FilterCalls
    /\ pc = "helpers"
    /\ sniff.file

HelperNext == Filter

HelperSpec == HelperInit /\ [][HelperNext]_vars


\* ------------------------------------------------------------------------
\* mongo_proxy.py: two sessions at once.  start() serves every client in a
\* greenlet of its own, all with the one MongoProxy and the one
\* TimingListener of __main__; greenlets switch at blocking socket calls.
\* Here the sockets never fail: a session is its events and the switches
\* between them.
\* ------------------------------------------------------------------------

\* The addresses of the two clients.
Sessions == {"a1", "a2"}

\* Requests one session handles.
MaxServed == 1

\* What either client may send: the clients number their requests
\* independently of each other.
PeerFrames ==
    {QueryFrame(1, NsDotted), QueryFrame(2, NsDotted), InsertFrame(1, NsDotted)}

NewPeer ==
    [pc |-> "accept", served |-> 0,
     msg |-> [header |-> NoHeader, collection |-> <<>>],
     began |-> 0, ended |-> 0, lat |-> <<>>, threw |-> FALSE]

\* proxy(), lines 493-506, for client s.
PeerOpen(s) ==
    /\ pc = "serving"
    /\ peers[s].pc = "accept"
    /\ LET d == invoke_callback(listeners, "on_open", s, timing, clock, {})
       IN  /\ timing' = d.timing
           /\ peers' = [peers EXCEPT ![s].pc = "recv"]
    /\ clock' = clock + 1
    /\ UNCHANGED <<calls, listeners, pc, probe>>
    /\ UNCHANGED sessionVars
    /\ UNCHANGED sniffVars

\* proxy(), lines 510-530, and handle_<op> up to s.sendall(buf).
PeerRequest(s) ==
    /\ pc = "serving"
    /\ peers[s].pc = "recv"
    /\ peers[s].served < MaxServed
    /\ \E f \in PeerFrames :
        LET now == clock + 1
            h == extract_header(Slice(f, 0, HeaderLen)).header
            dec == decode_typed(h, f)
            r == RunEvents(BeforeSeq(h.operation), dec.msg, timing, now, {})
        IN  /\ timing' = r.timing
            /\ clock' = now
            /\ peers' = [peers EXCEPT ![s] =
                            [@ EXCEPT !.pc = "send", !.msg = dec.msg,
                                      !.began = now, !.lat = <<>>,
                                      !.threw = r.threw]]
    /\ UNCHANGED <<calls, listeners, pc, probe>>
    /\ UNCHANGED sessionVars
    /\ UNCHANGED sniffVars

\* s.sendall(buf) has returned: the events up to the next blocking call.
PeerSend(s) ==
    /\ pc = "serving"
    /\ peers[s].pc = "send"
    /\ LET now == clock + 1
           op == peers[s].msg.header.operation
           r == RunEvents(AfterSendSeq(op), peers[s].msg, timing, now, {})
       IN  /\ timing' = r.timing
           /\ clock' = now
           /\ peers' = [peers EXCEPT ![s] =
                           IF ExpectsReply(op)
                           THEN [@ EXCEPT !.pc = "pump",
                                          !.threw = @ \/ r.threw]
                           ELSE [@ EXCEPT !.pc = "recv",
                                          !.served = @ + 1,
                                          !.ended = now,
                                          !.lat = Latencies(r.steps),
                                          !.threw = @ \/ r.threw]]
    /\ UNCHANGED <<calls, listeners, pc, probe>>
    /\ UNCHANGED sessionVars
    /\ UNCHANGED sniffVars

\* handle_reply has read the reply: before_reply, socket.sendall(resp),
\* after_reply, then the events of handle_query that follow.
PeerReply(s) ==
    /\ pc = "serving"
    /\ peers[s].pc = "pump"
    /\ LET now == clock + 1
           op == peers[s].msg.header.operation
           wire == ReplyFrame(50, peers[s].msg.header.request_id)
           answer == decode_reply(extract_header(Slice(wire, 0, HeaderLen)).header,
                                  wire).msg
           r1 == RunEvents(<<"before_reply", "after_reply">>, answer, timing,
                           now, {})
           r == run_events(listeners, AfterReplySeq(op), peers[s].msg, now,
                           {}, 1, r1)
       IN  /\ timing' = r.timing
           /\ clock' = now
           /\ peers' = [peers EXCEPT ![s] =
                           [@ EXCEPT !.pc = "recv", !.served = @ + 1,
                                     !.ended = now,
                                     !.lat = Latencies(r.steps),
                                     !.threw = @ \/ r.threw]]
    /\ UNCHANGED <<calls, listeners, pc, probe>>
    /\ UNCHANGED sessionVars
    /\ UNCHANGED sniffVars

PairInit ==
    /\ Fresh
    /\ pc = "serving"
    /\ peers = [s \in Sessions |-> NewPeer]
    /\ probe = <<>>
    /\ sniff.file

PairNext ==
    \E s \in Sessions :
        \/ PeerOpen(s)
        \/ PeerRequest(s)
        \/ PeerSend(s)
        \/ PeerReply(s)

PairSpec == PairInit /\ [][PairNext]_vars


\* ------------------------------------------------------------------------
\* Properties of the inline proxy
\* ------------------------------------------------------------------------

Names(st) == [i \in DOMAIN st |-> st[i].ev]

Count(st, name) == Cardinality({i \in DOMAIN st : st[i].ev = name})

IoNames == {"write_upstream", "read_upstream", "write_client"}

\* The events of the iteration, without its reads and writes.
Dispatched(st) == SelectSeq(st, LAMBDA e : e.ev \notin IoNames)

\* proxy() has finished, by return or by an exception.
SessionOver == pc \in {"returned", "raised"}

\* The iteration of the frame in `header` has run to its end and the
\* session is about to read the next client header.
IterationDone == pc = "recv_header" /\ steps # <<>>

\* C1: the bytes written upstream are at all times a prefix of the bytes
\* read from the client, and the bytes written to the client a prefix of the
\* bytes read from upstream.
C1_ForwardedIsPrefixOfReceived ==
    /\ IsPrefix(wroteS, readC)
    /\ IsPrefix(wroteC, readS)

\* C1 witness: a second iteration has forwarded a request and its reply
\* while a listener raised.
C1_Witness ==
    /\ IterationDone
    /\ frames = 2
    /\ threw
    /\ wroteC # <<>>
    /\ Len(wroteS) > Len(buf)

\* C2: a session that emitted on_open has, when proxy() is over, emitted
\* on_close exactly once and logged its summary.
C2_OnCloseAndSummaryAtEnd ==
    (SessionOver /\ Count(lifecycle, "on_open") = 1)
        => (Count(lifecycle, "on_close") = 1 /\ Count(lifecycle, "summary") = 1)

\* C3: when a session that had its two sockets is over, both are closed.
C3_BothSocketsClosedAtEnd ==
    (SessionOver /\ sock.upstream # "none") => sock = BothClosed

\* The order of steps the claim gives for a Query and for a GetMore.
QueryOrder ==
    <<"before_query", "before_query_send", "write_upstream",
      "after_query_send", "before_query_reply", "before_reply",
      "write_client", "after_reply", "after_query_reply", "after_query">>

MoreOrder ==
    <<"before_more", "before_more_send", "write_upstream", "after_more_send",
      "before_more_reply", "before_reply", "write_client", "after_reply",
      "after_more_reply", "after_more">>

\* The steps of the iteration without the reads of the reply pump.
StepsButReads == SelectSeq(Names(steps), LAMBDA n : n # "read_upstream")

InIteration ==
    pc \in {"send_upstream", "reply_header", "reply_body", "send_client"}
        \/ IterationDone

\* C6: the steps of a Query (GetMore) iteration are, in this order,
\* before_query, before_query_send, the write upstream, after_query_send,
\* before_query_reply, before_reply, the write to the client, after_reply,
\* after_query_reply, after_query; all of them once the reply has been
\* written back; and the reply pump has run once, after before_query_reply.
C6_QueryStepOrder ==
    \A o \in {OP_QUERY, OP_GETMORE} :
        (InIteration /\ header.operation = o) =>
            LET order == IF o = OP_QUERY THEN QueryOrder ELSE MoreOrder
            IN  /\ IsPrefix(StepsButReads, order)
                /\ IterationDone =>
                       /\ StepsButReads = order
                       /\ Count(steps, "read_upstream") = 1
                       /\ steps[6].ev = "read_upstream"

\* C6 witness: a GetMore iteration that has run to its end.
C6_Witness ==
    /\ IterationDone
    /\ header.operation = OP_GETMORE
    /\ Len(steps) = 11

WriteOps == {OP_INSERT, OP_UPDATE, OP_DELETE}

\* C7: an Insert, Update or Delete iteration is before_<op>, the write
\* upstream, after_<op>, and the session never waits for upstream in it.
C7_WriteStepOrder ==
    (InIteration /\ header.operation \in WriteOps) =>
        /\ pc \notin {"reply_header", "reply_body", "send_client"}
        /\ IsPrefix(Names(steps),
                    BeforeSeq(header.operation) \o <<"write_upstream">>
                        \o AfterSendSeq(header.operation))
        /\ Names(steps)[1] \in {"before_insert", "before_update", "before_delete"}
        /\ IterationDone =>
               /\ Len(steps) = 3
               /\ steps[2].ev = "write_upstream"
               /\ steps[3].ev \in {"after_insert", "after_update", "after_delete"}
               /\ Count(steps, "read_upstream") = 0

\* C7 witness: an Update iteration that has run to its end.
C7_Witness ==
    /\ IterationDone
    /\ header.operation = OP_UPDATE
    /\ Names(steps) = <<"before_update", "write_upstream", "after_update">>

\* C10: once the reply of a Query or GetMore has been pumped back and the
\* iteration is over, the TimingListener has logged exactly one latency
\* event for the request and its entry is gone from the pending map.
C10_OneLatencyPerReply ==
    (/\ IterationDone
     /\ header.operation \in {OP_QUERY, OP_GETMORE}
     /\ Count(steps, "write_client") = 1
     /\ "timing" \in Range(listeners))
        => /\ Len(Latencies(steps)) = 1
           /\ Latencies(steps)[1].request_id = header.request_id
           /\ header.request_id \notin DOMAIN timing.requests

\* ------------------------------------------------------------------------
\* Properties of the listener bus
\* ------------------------------------------------------------------------

\* Every dispatch on record: the events of the session's current iteration,
\* its on_open and on_close, and the events of every chunk of the capture.
Dispatches ==
    {steps[i] : i \in {j \in DOMAIN steps : steps[j].ev \notin IoNames}}
        \cup {lifecycle[i] :
                  i \in {j \in DOMAIN lifecycle : lifecycle[j].ev # "summary"}}
        \cup UNION {Range(capture[i].events) : i \in DOMAIN capture}

\* The last Len(tail) elements of s are tail.
EndsWith(s, tail) ==
    /\ Len(tail) <= Len(s)
    /\ SubSeq(s, Len(s) - Len(tail) + 1, Len(s)) = tail

\* C4: every dispatched event reaches every registered listener, also after
\* one of them has raised; no listener exception ends the forwarding loop,
\* proxy() or the handling of a chunk; and an iteration of the inline proxy
\* in which a listener raised still forwards its frame and goes on to the
\* next client header.
C4_ListenerExceptionsIsolated ==
    /\ \A d \in Dispatches : d.to = listeners
    /\ cause # "listener_error"
    /\ pc = "raised" => cause \in {"eof", "io_error", "bad_header", "decode_error"}
    /\ \A i \in DOMAIN capture : capture[i].error => capture[i].events = <<>>
    /\ (threw /\ Dispatched(steps) # <<>>) =>
           \/ pc = "send_upstream"
           \/ Count(steps, "write_upstream") = 1
           \/ cause = "io_error"
    /\ (threw /\ IterationDone) => EndsWith(wroteS, buf)

\* C4 witness: with the listeners (user, timing) a Query iteration has run
\* to its end although the first listener raised, and the TimingListener
\* has still logged the latency of the query.
C4_Witness ==
    /\ IterationDone
    /\ threw
    /\ listeners = <<"user", "timing">>
    /\ header.operation = OP_QUERY
    /\ Len(Latencies(steps)) = 1
    /\ EndsWith(wroteS, buf)

\* The position of the first add_listener call for listener l.
FirstCall(l) ==
    CHOOSE i \in DOMAIN calls : calls[i] = l /\ \A j \in 1..(i - 1) : calls[j] # l

\* C5: the listeners an event is delivered to are in the order of their
\* first registration with add_listener.
C5_InvokedInRegistrationOrder ==
    \A d \in Dispatches :
        \A i, j \in DOMAIN d.to :
            i < j => /\ d.to[i] \in Range(calls)
                     /\ d.to[j] \in Range(calls)
                     /\ FirstCall(d.to[i]) < FirstCall(d.to[j])

\* C5 witness: after add_listener(timing), add_listener(user),
\* add_listener(timing) an event of a finished iteration went to timing and
\* then to user.
C5_Witness ==
    /\ IterationDone
    /\ calls = <<"timing", "user", "timing">>
    /\ Dispatched(steps) # <<>>
    /\ Dispatched(steps)[1].to = <<"timing", "user">>

\* ------------------------------------------------------------------------
\* Properties of frames the inline proxy does not decode
\* ------------------------------------------------------------------------

UntypedOp == header.operation \notin TypedOps

\* stats.get(op, 0)
Counter(st, op) == IF op \in DOMAIN st THEN st[op] ELSE 0

\* The state part of C8: no event, no wait for a reply, one write.
UntypedIteration ==
    (InIteration /\ UntypedOp) =>
        /\ Dispatched(steps) = <<>>
        /\ pc \notin {"reply_header", "reply_body", "send_client"}
        /\ IterationDone => Names(steps) = <<"write_upstream">>

\* The step part of C8.  Reading the body counts the frame once and decodes
\* nothing; the write sends the buffer as it was read and takes the session
\* to the next client header; only a socket error ends the session.
UntypedStep ==
    /\ (pc = "recv_body" /\ UntypedOp /\ pc' = "send_upstream") =>
           /\ Counter(stats', header.operation)
                  = Counter(stats, header.operation) + 1
           /\ \A op \in DOMAIN stats' \ {header.operation} :
                  op \in DOMAIN stats /\ stats'[op] = stats[op]
           /\ msg' = msg
           /\ timing' = timing
    /\ (pc = "recv_body" /\ UntypedOp /\ pc' \notin {"recv_body", "send_upstream"})
           => cause' = "io_error"
    /\ (pc = "send_upstream" /\ UntypedOp /\ pc' # "send_upstream") =>
           \/ /\ wroteS' = wroteS \o buf
              /\ pc' = "recv_header"
              /\ stats' = stats
           \/ cause' = "io_error"

\* C8: a client frame whose operation is none of Query, GetMore, Insert,
\* Update, Delete is written upstream as it was read, its operation's
\* counter goes up by exactly one, no listener event is dispatched, nothing
\* is decoded, and the session goes on to the next client header.
C8_UntypedFramesPassThrough == []UntypedIteration /\ [][UntypedStep]_vars

\* C8 witness: the second KILL_CURSORS frame of a session has been passed
\* on whole.
C8_Witness ==
    /\ IterationDone
    /\ header.operation = OP_KILL_CURSORS
    /\ Counter(stats, OP_KILL_CURSORS) = 2
    /\ Len(buf) = header.length
    /\ wroteS = readC

\* ------------------------------------------------------------------------
\* Properties of the sniffer's TimingListener
\* ------------------------------------------------------------------------

\* Chunk i is a Reply that was delivered to after_query.
DeliveredReply(i) ==
    /\ capture[i].header.operation = OP_REPLY
    /\ \E k \in DOMAIN capture[i].events : capture[i].events[k].ev = "after_query"

\* Before chunk i, a before_<op> event of a request with request_id r
\* reached the TimingListener.
ObservedBefore(i, r) ==
    \E j \in 1..(i - 1) :
        /\ capture[j].header.request_id = r
        /\ capture[j].events # <<>>
        /\ capture[j].events[1].ev \in BeforeEvents
        /\ "timing" \in Range(capture[j].events[1].to)

\* The latency events logged while chunk i was handled.
ReplyEvents(i) ==
    SelectSeq(Latencies(capture[i].events), LAMBDA l : l.kind = "reply")

\* Chunk i is the first Reply to request r that was delivered.
FirstReplyTo(i, r) ==
    \A j \in 1..(i - 1) :
        ~(DeliveredReply(j) /\ capture[j].header.response_to = r)

\* C9: a Reply with response_to = r delivered to after_query gets exactly
\* one latency event, paired with request r, when a request r was observed
\* before it, whatever was handled in between, and none when no request r
\* was observed.  The first half is read for the first Reply to r.
C9_OneLatencyPerObservedRequest ==
    \A i \in DOMAIN capture :
        DeliveredReply(i) =>
            LET r == capture[i].header.response_to
            IN  IF ObservedBefore(i, r)
                THEN FirstReplyTo(i, r) =>
                         /\ Len(ReplyEvents(i)) = 1
                         /\ ReplyEvents(i)[1].request_id = r
                ELSE ReplyEvents(i) = <<>>

\* ------------------------------------------------------------------------
\* Properties of the TimingListener of the inline proxy
\* ------------------------------------------------------------------------

\* C11: with two sessions at once, a request a session has finished got
\* exactly one latency event, measured from that session's own before_<op>
\* event, and no listener call of the session failed, also when both
\* sessions use the same request_id.
C11_SessionsDoNotShareRequests ==
    \A s \in DOMAIN peers :
        peers[s].served >= 1 =>
            /\ ~peers[s].threw
            /\ Len(peers[s].lat) = 1
            /\ peers[s].lat[1].request_id = peers[s].msg.header.request_id
            /\ peers[s].lat[1].elapsed = peers[s].ended - peers[s].began

\* C12: once on_close has been delivered the TimingListener's pending map
\* holds no entry of the session.
C12_NoPendingEntryAfterClose ==
    (SessionOver /\ Count(lifecycle, "on_close") = 1) =>
        DOMAIN timing.requests = {}

\* C19: when proxy() has finished, the session's entry is gone from
\* CONNECTIONS.
C19_RegistryEntryRemoved == SessionOver => Greenlet \notin CONNECTIONS

\* ------------------------------------------------------------------------
\* The reassembler and the driver of the sniffer
\* ------------------------------------------------------------------------

\* C13: when the two fragments of one message (consecutive identifiers,
\* their concatenation one complete message) are all the reassembler was
\* given, in either order, it has emitted exactly one message in total and
\* the pending list of their source is empty.
C13_OneMessageWhateverTheOrder ==
    \A M \in Fragmented :
        (Len(fed) = 2 /\ {fed[1].pkt, fed[2].pkt} = M) =>
            /\ Len(fed[1].chunks) + Len(fed[2].chunks) = 1
            /\ fed[1].pkt.src \in DOMAIN sniff.pdus =>
                   sniff.pdus[fed[1].pkt.src] = <<>>

\* C14: no buffer the reassembler joined and no pending list holds bytes of
\* two source endpoints (address and port).
C14_EndpointsKeptApart ==
    /\ \A i \in DOMAIN fed : \A o \in fed[i].joined : Cardinality(o) <= 1
    /\ \A k \in DOMAIN sniff.pdus :
           Cardinality(UNION {sniff.pdus[k][i].from :
                                  i \in DOMAIN sniff.pdus[k]}) <= 1

\* C15: no packet stops the driver: _handle_packet has returned for every
\* packet it was given.
C15_NoPacketStopsTheDriver ==
    /\ pc \notin {"crashed", "hung"}
    /\ \A i \in DOMAIN fed : fed[i].status = "ok"

\* The chunks the reassembler returned to _handle_packet, in their order.
RECURSIVE Returned(_)
Returned(log) ==
    IF log = <<>> THEN <<>>
    ELSE (IF Head(log).status = "ok" THEN Head(log).chunks ELSE <<>>)
             \o Returned(Tail(log))

\* The header _handle_packet reads from a chunk.
HeaderOf(chunk) ==
    IF sniff_extract_header(chunk).ok
    THEN sniff_extract_header(chunk).header ELSE NoHeader

\* The events the sniffer owes a completed message.
OwedEvents(op) ==
    CASE op = OP_REPLY -> <<"before_reply", "after_reply", "after_query">>
      [] op = OP_QUERY -> <<"before_query", "after_query">>
      [] op = OP_GETMORE -> <<"before_more", "after_more">>
      [] op = OP_INSERT -> <<"before_insert", "after_insert">>
      [] op = OP_UPDATE -> <<"before_update", "after_update">>
      [] op = OP_DELETE -> <<"before_delete", "after_delete">>

\* C20: every chunk that was parsed got before_<op> and after_<op> (a
\* Reply: before_reply, after_reply, after_query) and nothing else, each
\* event given to every listener; the chunks were handled in the order the
\* reassembler returned them.
C20_BackToBackInEmittedOrder ==
    /\ \A i \in DOMAIN capture :
           (capture[i].header.operation \in SniffedOps /\ ~capture[i].error) =>
               /\ Names(capture[i].events)
                      = OwedEvents(capture[i].header.operation)
               /\ \A j \in DOMAIN capture[i].events :
                      capture[i].events[j].to = listeners
    /\ [i \in DOMAIN capture |-> capture[i].header]
           = [i \in DOMAIN Returned(fed) |-> HeaderOf(Returned(fed)[i])]

\* A packet gave two chunks, and a Reply was dispatched.
C20_Witness ==
    /\ \E i \in DOMAIN fed : Len(fed[i].chunks) = 2 /\ fed[i].status = "ok"
    /\ \E j \in DOMAIN capture :
           /\ capture[j].header.operation = OP_REPLY
           /\ Len(capture[j].events) = 3
    /\ \E j \in DOMAIN capture :
           /\ capture[j].header.operation = OP_INSERT
           /\ Len(capture[j].events) = 2

\* C16: extract_header of either program fails on a buffer of fewer than 16
\* bytes, and the header it returns has a total_length of 16 or more.
C16_HeaderLengthAtLeast16 ==
    probe # <<>> =>
        /\ Len(probe.resp) < HeaderLen => ~probe.proxy.ok /\ ~probe.sniffer.ok
        /\ probe.proxy.ok => probe.proxy.header.length >= HeaderLen
        /\ probe.sniffer.ok => probe.sniffer.header.length >= HeaderLen

\* C17: the step in which the decode of a request fails writes nothing
\* upstream, dispatches no event of the frame, ends the session with both
\* sockets closed, and fires on_close.
C17_DecodeFailureEndsSession ==
    [][(pc = "recv_body" /\ cause' = "decode_error") =>
           /\ wroteS' = wroteS
           /\ Dispatched(steps') = <<>>
           /\ SessionOver'
           /\ sock' = BothClosed
           /\ Count(lifecycle', "on_close") = Count(lifecycle, "on_close") + 1]_vars

\* The reply pump is reading a reply and its next upstream read returns the
\* end of the stream.
UpstreamEof ==
    /\ pc \in {"reply_header", "reply_body"}
    /\ gone.upstream
    /\ inS = <<>>

\* C18: a session whose upstream socket returns EOF while a reply is read
\* reaches its end.
C18_EofEndsSession == UpstreamEof ~> SessionOver

\* ------------------------------------------------------------------------
\* The decoders
\* ------------------------------------------------------------------------

\* A message was decoded by both programs.
Decoded(ops) == "decoded" \in DOMAIN probe /\ probe.sent.op \in ops

\* C21: the flags of a decoded well-formed Update (one or two documents)
\* and of a decoded well-formed Delete (one document) are the flags word
\* that follows the namespace on the wire, in the proxy and in the sniffer.
C21_FlagsAreTheWireFlags ==
    (\/ Decoded({OP_UPDATE}) /\ probe.sent.k <= 2
     \/ Decoded({OP_DELETE}) /\ probe.sent.k = 1) =>
        /\ probe.decoded.proxy.ok
        /\ probe.decoded.proxy.msg.flags = probe.sent.flags
        /\ probe.decoded.sniffer.ok
        /\ probe.decoded.sniffer.msg.flags = probe.sent.flags

\* C22: a Query or an Update with more than two documents is not decoded,
\* by neither program.
C22_ThirdDocumentIsAnError ==
    (Decoded({OP_QUERY, OP_UPDATE}) /\ probe.sent.k > 2) =>
        /\ ~probe.decoded.proxy.ok
        /\ ~probe.decoded.sniffer.ok

\* C23: the documents of a decoded Insert are all the documents of the
\* message in wire order, in the proxy and in the sniffer.
C23_InsertKeepsAllDocuments ==
    Decoded({OP_INSERT}) =>
        /\ probe.decoded.proxy.ok
        /\ probe.decoded.proxy.msg.documents
               = [i \in 1..probe.sent.k |-> Elements(i)]
        /\ probe.decoded.sniffer.ok
        /\ probe.decoded.sniffer.msg.documents
               = [i \in 1..probe.sent.k |-> Elements(i)]

\* ------------------------------------------------------------------------
\* The client's frames as the proxy reads them
\* ------------------------------------------------------------------------

\* C24: the buffer of a frame that was read and is about to be written
\* upstream, all of whose bytes the client has sent, has the total_length
\* of its header.
C24_WholeFrameIsRead ==
    (pc = "send_upstream" /\ Len(buf) + Len(inC) >= header.length) =>
        Len(buf) = header.length

\* ------------------------------------------------------------------------
\* The end of a capture
\* ------------------------------------------------------------------------

\* C25: when the capture source has returned an error the process has
\* ended with an exit code other than 0.
C25_CaptureErrorExitsNonZero ==
    cause = "pcap_error" => ExitCode > 0

\* ------------------------------------------------------------------------
\* The helpers
\* ------------------------------------------------------------------------

\* The value at the end of the descent d[p1][p2]...[pn].
RECURSIVE Descend(_, _)
Descend(v, path) ==
    IF path = <<>> THEN v ELSE Descend(Get(v, Head(path)[1]), Tail(path))

\* The descent through document d along the dotted field gives value.
Matches(d, field, value) ==
    LET v == Descend(d, Split(field, <<>>, <<>>))
    IN  IsScalar(v) /\ v[<<>>] = value

\* C26: filter yields exactly the documents whose descent along the dotted
\* field gives the value, in the order of the iterator.
C26_FilterDescendsThePath ==
    "out" \in DOMAIN probe =>
        /\ probe.out.ok
        /\ probe.out.docs
               = SelectSeq(probe.iterator,
                           LAMBDA d : Matches(d, probe.field, probe.value))

\* ------------------------------------------------------------------------
\* The reassembler: runs, short payloads, tails
\* ------------------------------------------------------------------------

\* The runs of packets with consecutive identifiers that start at packet p.
RECURSIVE RunsFrom(_, _)
RunsFrom(p, pkts) ==
    {<<p>>} \cup
        UNION {{<<p>> \o run : run \in RunsFrom(q, pkts)} :
                   q \in {r \in pkts : r.id = p.id + 1}}

\* chunk is a piece of buffer b.
IsSlice(chunk, b) ==
    \E k \in 0..(Len(b) - Len(chunk)) : Slice(b, k, k + Len(chunk)) = chunk

\* The packets of the source of fed[i] the reassembler was given up to it.
GivenFrom(i) ==
    {fed[j].pkt : j \in {k \in 1..i : fed[k].pkt.src = fed[i].pkt.src}}

\* C27: every message the reassembler emitted lies in the concatenation,
\* in ascending order, of packets of its source whose identifiers are
\* consecutive (of one packet when it was not joined).
C27_JoinedRunsAreConsecutive ==
    \A i \in DOMAIN fed : \A c \in DOMAIN fed[i].chunks :
        fed[i].status = "ok" =>
            \E p \in GivenFrom(i) : \E run \in RunsFrom(p, GivenFrom(i)) :
                IsSlice(fed[i].chunks[c], join(run))

\* C28: every call of the reassembler came to an end, by a return or by
\* an exception.
C28_ReassemblerTerminates ==
    \A i \in DOMAIN fed : fed[i].status \in {"ok", "raised"}

\* The packet the reassembler was given last, and what is pending for its
\* source after the call.
LastFed == fed[Len(fed)]

PendingOfLast ==
    IF LastFed.pkt.src \in DOMAIN sniff.pdus
    THEN sniff.pdus[LastFed.pkt.src] ELSE <<>>

\* C29: after a call with a payload of 16 bytes or fewer that is a fragment
\* of a cut message, the payload is part of a pending buffer of its source
\* or of a message the call emitted; and once the two fragments of the
\* message whose second fragment has 16 bytes were given, in either order,
\* the message was emitted.
C29_ShortFragmentIsKept ==
    /\ (/\ fed # <<>>
        /\ LastFed.pkt \in UNION Fragmented
        /\ Len(LastFed.pkt.data) <= HeaderLen) =>
            \/ \E k \in DOMAIN PendingOfLast :
                   IsSlice(LastFed.pkt.data, PendingOfLast[k].data)
            \/ /\ LastFed.status = "ok"
               /\ \E c \in DOMAIN LastFed.chunks :
                      IsSlice(LastFed.pkt.data, LastFed.chunks[c])
    /\ (/\ Len(fed) = 2
        /\ {fed[1].pkt, fed[2].pkt}
               = Cut(Client2, 3, UpdateFrame(3, NsDotted), 22)) =>
            Returned(fed) = <<UpdateFrame(3, NsDotted)>>

\* The complete messages at the start of buffer b and the tail after them.
RECURSIVE Peel(_, _)
Peel(b, msgs) ==
    LET h == sniff_extract_header(b)
    IN  IF /\ h.ok
           /\ h.header.length \in Int
           /\ h.header.length >= HeaderLen
           /\ h.header.length <= Len(b)
        THEN Peel(SliceFrom(b, h.header.length),
                  Append(msgs, Slice(b, 0, h.header.length)))
        ELSE [msgs |-> msgs, tail |-> b]

\* The last packet is the first of its source (the buffer of the run is its
\* payload, nothing was pending) and does not hold one whole message alone.
FirstOfSource ==
    /\ fed # <<>>
    /\ \A j \in 1..(Len(fed) - 1) : fed[j].pkt.src # LastFed.pkt.src
    /\ Len(Peel(LastFed.pkt.data, <<>>).msgs) >= 1
    /\ Peel(LastFed.pkt.data, <<>>).msgs # <<LastFed.pkt.data>>

\* C30: from a buffer of complete messages and a tail the reassembler
\* emits the messages, in their order, and keeps the tail, when there is
\* one, as the one pending fragment.
C30_MessagesEmittedTailKept ==
    FirstOfSource =>
        /\ LastFed.status = "ok"
        /\ LastFed.chunks = Peel(LastFed.pkt.data, <<>>).msgs
        /\ [k \in DOMAIN PendingOfLast |-> PendingOfLast[k].data]
               = IF Peel(LastFed.pkt.data, <<>>).tail = <<>> THEN <<>>
                 ELSE <<Peel(LastFed.pkt.data, <<>>).tail>>

\* C31: after a call of the reassembler that returned, the pending list of
\* the packet's source holds at most one buffer, of more than 16 bytes,
\* whose length is not the total_length of its header.
C31_OnePendingIncompleteBuffer ==
    (fed # <<>> /\ LastFed.status = "ok") =>
        /\ Len(PendingOfLast) <= 1
        /\ \A k \in DOMAIN PendingOfLast :
               /\ Len(PendingOfLast[k].data) > HeaderLen
               /\ sniff_extract_header(PendingOfLast[k].data).header.length
                      # Len(PendingOfLast[k].data)

\* The call found a buffer pending, joined it with the payload and left
\* one buffer pending that is not the payload.
C31_Witness ==
    /\ Len(fed) >= 2
    /\ LastFed.status = "ok"
    /\ LastFed.joined # {}
    /\ \E j \in 1..(Len(fed) - 1) :
           /\ fed[j].pkt.src = LastFed.pkt.src
           /\ fed[j].joined # {}
    /\ Len(PendingOfLast) = 1
    /\ PendingOfLast[1].data # LastFed.pkt.data

\* ------------------------------------------------------------------------
\* Namespaces and header fields
\* ------------------------------------------------------------------------

\* C32: a message whose namespace is empty, or has no NUL before the end of
\* the buffer, gives no message value in either program.
C32_BadNamespaceIsAnError ==
    "named" \in DOMAIN probe =>
        /\ ~probe.parsed.proxy.ok
        /\ ~probe.parsed.sniffer.ok

\* The four bytes w of a header field and the value v a function returned
\* for it.  "<i" returns an integer below 2^31, "<I" returns 2^31 or more
\* (a record) exactly when the top bit of w is set.  v is the unsigned
\* value of w:
ProxyHasUnsigned(v, w) == TopBit(w) = 0 /\ v = Low31(w)

SnifferHasUnsigned(v, w) ==
    IF TopBit(w) = 0 THEN v = Low31(w) ELSE v.over = Low31(w)

\* v is the signed value of w:
ProxyHasSigned(v, w) == v = UnpackI32(w)

SnifferHasSigned(v, w) == TopBit(w) = 0 /\ v = Low31(w)

\* C33: from 16 bytes both extract_header functions return the header with
\* total_length, request_id and response_to unsigned and operation signed
\* (and so the same header).
C33_UnsignedFieldsSignedOperation ==
    ("resp" \in DOMAIN probe /\ Len(probe.resp) = HeaderLen) =>
        /\ probe.proxy.ok
        /\ probe.sniffer.ok
        /\ ProxyHasUnsigned(probe.proxy.header.length, Slice(probe.resp, 0, 4))
        /\ ProxyHasUnsigned(probe.proxy.header.request_id,
                            Slice(probe.resp, 4, 8))
        /\ ProxyHasUnsigned(probe.proxy.header.response_to,
                            Slice(probe.resp, 8, 12))
        /\ ProxyHasSigned(probe.proxy.header.operation,
                          Slice(probe.resp, 12, 16))
        /\ SnifferHasUnsigned(probe.sniffer.header.length,
                              Slice(probe.resp, 0, 4))
        /\ SnifferHasUnsigned(probe.sniffer.header.request_id,
                              Slice(probe.resp, 4, 8))
        /\ SnifferHasUnsigned(probe.sniffer.header.response_to,
                              Slice(probe.resp, 8, 12))
        /\ SnifferHasSigned(probe.sniffer.header.operation,
                            Slice(probe.resp, 12, 16))

\* ------------------------------------------------------------------------
\* The order of the steps of one session
\* ------------------------------------------------------------------------

\* The last event of the iteration of a frame of operation op.
LastEvent(op) ==
    CASE op = OP_QUERY -> "after_query"
      [] op = OP_GETMORE -> "after_more"
      [] op = OP_INSERT -> "after_insert"
      [] op = OP_UPDATE -> "after_update"
      [] op = OP_DELETE -> "after_delete"

\* The session is about to read a client header after a request that was
\* decoded: the reply of a Query or GetMore was written to the client
\* before after_<op>, and after_<op> was the last step.
FrameFinished ==
    (IterationDone /\ header.operation \in TypedOps) =>
        /\ steps[Len(steps)].ev = LastEvent(header.operation)
        /\ ExpectsReply(header.operation) =>
               /\ Count(steps, "write_client") = 1
               /\ \E i \in DOMAIN steps : steps[i].ev = "write_client"

\* A step that reads from the client starts at one of the two reads of the
\* loop's head; a step that writes to the client writes the reply that was
\* read for the request of the iteration, a Query or GetMore.
SerialStep ==
    /\ readC' # readC => pc \in {"recv_header", "recv_body"}
    /\ wroteC' # wroteC =>
           /\ pc = "send_client"
           /\ ExpectsReply(header.operation)
           /\ wroteC' = wroteC \o resp
           /\ reply_header.response_to = header.request_id

\* C34: the session reads the next client header only when the frame is
\* finished (the reply written to the client and after_<op> fired for a
\* Query or GetMore, after_<op> fired for an Insert, Update or Delete), and
\* each reply written to the client answers the request of its iteration.
C34_StepsAreSerialised == []FrameFinished /\ [][SerialStep]_vars

\* Two Queries were answered, one after the other.
C34_Witness ==
    /\ IterationDone
    /\ frames = 2
    /\ header.operation = OP_QUERY
    /\ header.request_id = 2
    /\ wroteC = ReplyFrame(50, 1) \o ReplyFrame(50, 2)

\* ------------------------------------------------------------------------
\* The pending requests of the sniffer's TimingListener
\* ------------------------------------------------------------------------

\* The request a message is paired with: the one a Reply names, the message
\* itself otherwise.
PairedWith(h) ==
    IF h.operation = OP_REPLY THEN h.response_to ELSE h.request_id

\* The handling of one message leaves every pending entry but the one of
\* the paired request as it was.
OthersKept ==
    (pc = "capture" /\ Len(capture') = Len(capture) + 1) =>
        \A k \in DOMAIN timing.requests :
            k # PairedWith(capture'[Len(capture')].header) =>
                /\ k \in DOMAIN timing'.requests
                /\ timing'.requests[k] = timing.requests[k]

\* C35: handling a message removes from the TimingListener's pending map
\* no entry but that of the request the message is paired with.
C35_OnlyThePairedEntryRemoved == [][OthersKept]_vars

\* ------------------------------------------------------------------------
\* The counters of a session
\* ------------------------------------------------------------------------

\* The counter of op went up by one and no other counter changed.
CountedOnce(op) ==
    /\ Counter(stats', op) = Counter(stats, op) + 1
    /\ \A o \in (DOMAIN stats \cup DOMAIN stats') \ {op} :
           Counter(stats', o) = Counter(stats, o)

\* A step in which the read of a client frame's body returned counts the
\* frame under the operation of its header; a step in which the reply pump
\* parsed a header counts it under the operation of that header; no other
\* step of the session changes a counter.
CountStep ==
    IF pc = "recv_body" /\ clock' # clock /\ cause' # "io_error"
    THEN CountedOnce(header.operation)
    ELSE IF pc = "reply_header" /\ pc' = "reply_body"
    THEN CountedOnce(reply_header'.operation)
    ELSE stats' = stats

\* C36: the counters of a session start at nothing and go up by one, under
\* the operation of the header, for each client frame whose body read
\* returned and for each reply header the reply pump parsed: their sum is
\* the number of those frames and headers, a frame whose decode then fails
\* included.
C36_CountersCountHeaders ==
    [](pc = "accept" => stats = EmptyDict) /\ [][CountStep]_vars

\* A Query was counted, its Reply was counted, and a second Query was
\* counted although its decode failed.
C36_Witness ==
    /\ cause = "decode_error"
    /\ header.operation = OP_QUERY
    /\ Counter(stats, OP_QUERY) = 2
    /\ Counter(stats, OP_REPLY) = 1
    /\ SumOver(stats, DOMAIN stats) = 3

\* ------------------------------------------------------------------------
\* Registration of listeners
\* ------------------------------------------------------------------------

\* How often listener l is in the sequence ls.
Times(ls, l) == Cardinality({i \in DOMAIN ls : ls[i] = l})

\* C37: after the add_listener calls the list holds each listener that was
\* added once, ordered by first call, and every event that was dispatched
\* went to each of them once.
C37_AddListenerIsIdempotent ==
    /\ \A l \in Range(calls) : Times(listeners, l) = 1
    /\ Range(listeners) = Range(calls)
    /\ \A i, j \in DOMAIN listeners :
           i < j => FirstCall(listeners[i]) < FirstCall(listeners[j])
    /\ \A d \in Dispatches : \A l \in Range(calls) : Times(d.to, l) = 1

\* The TimingListener was added twice, around another listener, and the
\* events of a captured message went to each of the two once.
C37_Witness ==
    /\ calls = <<"timing", "user", "timing">>
    /\ Len(capture) >= 1
    /\ Len(capture[1].events) = 2
    /\ \A k \in DOMAIN capture[1].events :
           capture[1].events[k].to = <<"timing", "user">>

\* ------------------------------------------------------------------------
\* The end of the capture loop
\* ------------------------------------------------------------------------

\* The step in which dispatch returned 0.
NoPacketStep == pc = "capture" /\ cause' = "no_packet" /\ fed' = fed

\* Reading a file, the step leaves the loop and the process exits with
\* code 0; in a live capture the loop goes on.
LoopEndsAtEndOfFile ==
    NoPacketStep =>
        IF sniff.file THEN pc' = "exit" /\ ExitCode' = 0
        ELSE pc' = "capture"

\* C38: reading a capture file, the sniffer leaves its loop and exits with
\* code 0 when dispatch returns 0; in live mode that return value does not
\* end the loop.
C38_EndOfFileEndsTheLoop ==
    /\ []((pc = "exit" /\ cause = "no_packet") => sniff.file /\ ExitCode = 0)
    /\ [][LoopEndsAtEndOfFile]_vars

\* A capture file was read to its end after two packets.
C38_Witness ==
    /\ sniff.file
    /\ pc = "exit"
    /\ cause = "no_packet"
    /\ Len(fed) >= 2
    /\ ExitCode = 0

====
